---- MODULE Spec2Model ----
(***************************************************************************)
(* Model of the payroll/bonus portal navigator (PayslipHandler) of         *)
(* get_work_result_flet.                                                   *)
(*                                                                         *)
(* The handler is single-threaded and synchronous.  Each public method is  *)
(* modelled as a sequence of steps, one step per HTTP request together     *)
(* with the processing of its response (or of the transport exception the  *)
(* request raised).  The portal is the environment: it answers a request   *)
(* with a document whose hidden fields, list table, detail block and URL   *)
(* query are drawn from small sets, or the transport fails.                *)
(*                                                                         *)
(* Japanese literals of the source are transliterated to ASCII, one ASCII  *)
(* character per source character where length matters:                    *)
(*   'R' = U+4EE4, 'W' = U+548C  (era name, two characters)                *)
(*   'Y' = U+5E74 (year), 'M' = U+6708 (month), 'D' = U+65E5 (day)         *)
(* so "RW07Y07M" is the 8-character month label and "RW07Y" the 5-character*)
(* fiscal-year label.                                                      *)
(***************************************************************************)
EXTENDS Integers, Sequences, FiniteSets, TLC

\* ------------------------------------------------------------------ bounds
\* Number of distinct token values the portal issues for a hidden field.
MaxToken == 1
\* Largest number of rows of a list table.
MaxRows == 2

\* ---------------------------------------------------------------- strings
Min(a, b) == IF a < b THEN a ELSE b

\* Python slice s[0:n]: the first n characters, or all of s when shorter.
Prefix(s, n) == SubSeq(s, 1, Min(n, Len(s)))

\* Python `t in s` on strings: t occurs in s as a contiguous substring.
Contains(s, t) ==
    \E i \in 1..(Len(s) - Len(t) + 1) : SubSeq(s, i, i + Len(t) - 1) = t

\* -------------------------------------------------------- hidden fields
\* A document either has an <input> of a given name with a value, or not.
Absent == "ABSENT"
TokenNames == <<"t1", "t2", "t3", "t4">>
Tokens == {TokenNames[i] : i \in 1..MaxToken}

\* The hidden inputs of the documents the portal serves: all three present
\* with a common token, or only the view state present, with a token of
\* its own.
HiddenDocs ==
    {[VIEWSTATE |-> t, EVENTVALIDATION |-> t, VIEWSTATEGENERATOR |-> t] :
        t \in Tokens}
    \cup {[VIEWSTATE |-> TokenNames[MaxToken + 1], EVENTVALIDATION |-> Absent,
           VIEWSTATEGENERATOR |-> Absent]}

\* self.current_form_data = {} : the empty dict.
EmptyForm == << >>

\* _update_aspnet_state, the dict built from the three lookups.
ExtractState(hidden) ==
    [VIEWSTATE |-> IF hidden.VIEWSTATE # Absent THEN hidden.VIEWSTATE ELSE "",
     EVENTVALIDATION |->
        IF hidden.EVENTVALIDATION # Absent THEN hidden.EVENTVALIDATION ELSE "",
     VIEWSTATEGENERATOR |->
        IF hidden.VIEWSTATEGENERATOR # Absent
        THEN hidden.VIEWSTATEGENERATOR ELSE ""]

\* ------------------------------------------------------------------- URLs
\* A URL is its page (last path segment) and its query, a sequence of
\* <<key, value>> pairs.  The empty string URL has page "".
Url(page, query) == [page |-> page, query |-> query]
NoUrl == Url("", << >>)

LoginPage == "Login.aspx"
MenuPage == "PMenu.aspx"
BonusListPage == "PShowSB.aspx"
SalaryListPage == "SalaryList"
DetailPage == "Detail"

\* `"PMenu.aspx" in resp.url`, `"PShowSB.aspx" in resp.url`
UrlHas(url, page) == url.page = page

\* Queries of the detail pages' URLs.
DetailQueries ==
    { << >>,
      << <<"timestamp", "">>, <<"timestamp", "200">>, <<"timestamp", "300">> >> }

NoTimestamp == "NONE"

\* Variant: the last value of the key is taken.
RECURSIVE LastValue(_, _)
LastValue(query, key) ==
    IF query = << >> THEN NoTimestamp
    ELSE LET later == LastValue(Tail(query), key)
         IN  IF later # NoTimestamp THEN later
             ELSE IF Head(query)[1] = key /\ Head(query)[2] # ""
                  THEN Head(query)[2] ELSE NoTimestamp

\* urllib.parse.parse_qs(...).get('timestamp', [None])[0]: pairs with a
\* blank value are dropped, the first remaining value of the key is taken.
RECURSIVE FirstValue(_, _)
FirstValue(query, key) ==
    IF query = << >> THEN NoTimestamp
    ELSE IF Head(query)[1] = key /\ Head(query)[2] # ""
         THEN Head(query)[2]
         ELSE FirstValue(Tail(query), key)

\* _get_timestamp_from_url
GetTimestampFromUrl(url) == FirstValue(url.query, "timestamp")

\* ------------------------------------------------------------ list tables
\* A row of the table with id 'tdb': the number of its <td> cells, the text
\* of the third cell, and the name of the <input> in the second cell (NoBtn
\* when the second cell holds no <input>).
NoBtn == "NOBTN"
Row(n, label, btn) == [cells |-> n, label |-> label, btn |-> btn]

RowSet ==
    { Row(3, "RW07Y06M25D", "btnA"),
      Row(3, "RW07Y07M", "btnB"),
      Row(3, "RW07Y07M", NoBtn),
      Row(2, "", "btnS") }

RECURSIVE SeqsUpTo(_, _)
SeqsUpTo(S, n) ==
    IF n = 0 THEN {<< >>}
    ELSE LET shorter == SeqsUpTo(S, n - 1)
         IN  shorter \cup {Append(q, x) : q \in shorter, x \in S}

\* A list document: whether it has a table with id 'tdb', and its rows.
Table(rows) == [found |-> TRUE, rows |-> rows]
\* soup.find('table', {'id': 'tdb'}) is None
NoTable == [found |-> FALSE, rows |-> << >>]
Tables == {Table(rows) : rows \in SeqsUpTo(RowSet, MaxRows)} \cup {NoTable}

\* The period sets a caller asks fetch_salary_data for.
SalaryTargetSets == {{}, {"RW07Y07M"}, {"RW07Y06M", "RW07Y07M"}}
\* The fiscal-year labels and already-persisted sets given to fetch_bonus_data.
ReiwaYears == {"RW07Y", "RW06Y"}
ExistingSets == {{}, {"RW07Y06M25D"}, {"RW07Y06M"}}
\* The argument pairs of fetch_bonus_data: the year no row belongs to is
\* given with the empty already-persisted set only.
BonusInputs ==
    {input \in ReiwaYears \X ExistingSets :
        input[1] = "RW07Y" \/ input[2] = {}}

\* Variant: the whole period label is looked up in the target set.
RECURSIVE SalaryScanFullLabel(_, _)
SalaryScanFullLabel(rows, target_dates_set) ==
    IF rows = << >> THEN << >>
    ELSE LET row == Head(rows)
             rest == SalaryScanFullLabel(Tail(rows), target_dates_set)
         IN  IF row.cells < 3 THEN rest
             ELSE IF row.label \in target_dates_set /\ row.btn # NoBtn
                  THEN << <<row.label, row.btn>> >> \o rest
                  ELSE rest

\* Variant: every row with a button is a candidate.
RECURSIVE SalaryScanAll(_, _)
SalaryScanAll(rows, target_dates_set) ==
    IF rows = << >> THEN << >>
    ELSE LET row == Head(rows)
             rest == SalaryScanAll(Tail(rows), target_dates_set)
         IN  IF row.cells < 3 THEN rest
             ELSE IF row.btn # NoBtn
                  THEN << <<row.label, row.btn>> >> \o rest
                  ELSE rest

\* fetch_salary_data: the scan of the list table.
RECURSIVE SalaryScan(_, _)
SalaryScan(rows, target_dates_set) ==
    IF rows = << >> THEN << >>
    ELSE LET row == Head(rows)
             rest == SalaryScan(Tail(rows), target_dates_set)
         IN  IF row.cells < 3 THEN rest
             ELSE IF /\ Prefix(row.label, 8) \in target_dates_set
                     /\ row.btn # NoBtn
                  THEN << <<row.label, row.btn>> >> \o rest
                  ELSE rest

SalaryTargets(table, target_dates_set) ==
    IF table.found THEN SalaryScan(table.rows, target_dates_set) ELSE << >>

\* Variant: the 8-character prefix is looked up in the already-persisted set.
RECURSIVE BonusScanPrefix(_, _, _)
BonusScanPrefix(rows, target_reiwa_year, existing_dates) ==
    IF rows = << >> THEN << >>
    ELSE LET row == Head(rows)
             rest == BonusScanPrefix(Tail(rows), target_reiwa_year,
                                     existing_dates)
         IN  IF row.cells < 3 THEN rest
             ELSE IF /\ Contains(row.label, target_reiwa_year)
                     /\ Prefix(row.label, 8) \notin existing_dates
                     /\ row.btn # NoBtn
                  THEN << <<row.label, row.btn>> >> \o rest
                  ELSE rest

\* Variant: the already-persisted set is not consulted.
RECURSIVE BonusScanIgnoresExisting(_, _, _)
BonusScanIgnoresExisting(rows, target_reiwa_year, existing_dates) ==
    IF rows = << >> THEN << >>
    ELSE LET row == Head(rows)
             rest == BonusScanIgnoresExisting(Tail(rows), target_reiwa_year,
                                              existing_dates)
         IN  IF row.cells < 3 THEN rest
             ELSE IF /\ Contains(row.label, target_reiwa_year)
                     /\ row.btn # NoBtn
                  THEN << <<row.label, row.btn>> >> \o rest
                  ELSE rest

\* fetch_bonus_data: the scan of the list table.
RECURSIVE BonusScan(_, _, _)
BonusScan(rows, target_reiwa_year, existing_dates) ==
    IF rows = << >> THEN << >>
    ELSE LET row == Head(rows)
             rest == BonusScan(Tail(rows), target_reiwa_year, existing_dates)
         IN  IF row.cells < 3 THEN rest
             ELSE IF /\ Contains(row.label, target_reiwa_year)
                     /\ row.label \notin existing_dates
                     /\ row.btn # NoBtn
                  THEN << <<row.label, row.btn>> >> \o rest
                  ELSE rest

BonusTargets(table, target_reiwa_year, existing_dates) ==
    IF table.found
    THEN BonusScan(table.rows, target_reiwa_year, existing_dates)
    ELSE << >>

\* ----------------------------------------------------------- detail pages
\* Parsed values: a Python int, a Python float (n / 10^e, e > 0) or a str.
IntVal(n) == [t |-> "int", n |-> n, e |-> 0, s |-> ""]
FloatVal(n, e) == [t |-> "float", n |-> n, e |-> e, s |-> ""]
StrVal(s) == [t |-> "str", n |-> 0, e |-> 0, s |-> s]
NA == StrVal("N/A")

CharAt(s, i) == SubSeq(s, i, i)
DigitChars == "0123456789"
IsDigit(c) == \E d \in 1..10 : CharAt(DigitChars, d) = c
DigitVal(c) == (CHOOSE d \in 1..10 : CharAt(DigitChars, d) = c) - 1
AllDigits(s) == \A i \in 1..Len(s) : IsDigit(CharAt(s, i))

RECURSIVE NatVal(_)
NatVal(s) ==
    IF s = "" THEN 0
    ELSE 10 * NatVal(SubSeq(s, 1, Len(s) - 1)) + DigitVal(CharAt(s, Len(s)))

\* str.replace(',', '')
RECURSIVE RemoveCommas(_)
RemoveCommas(s) ==
    IF s = "" THEN ""
    ELSE (IF CharAt(s, 1) = "," THEN "" ELSE CharAt(s, 1))
         \o RemoveCommas(SubSeq(s, 2, Len(s)))

HasSign(s) == s # "" /\ CharAt(s, 1) \in {"-", "+"}
Unsigned(s) == IF HasSign(s) THEN SubSeq(s, 2, Len(s)) ELSE s
Signed(s, n) == IF HasSign(s) /\ CharAt(s, 1) = "-" THEN 0 - n ELSE n

\* int(val_str) succeeds: an optional sign and at least one digit.
IntOk(s) == Unsigned(s) # "" /\ AllDigits(Unsigned(s))

\* float(val_str) succeeds on a text with a '.': an optional sign, digits
\* around exactly one '.', at least one digit in all.
DotAt(s) == CHOOSE i \in 1..Len(s) : CharAt(s, i) = "."
FloatOk(s) ==
    LET u == Unsigned(s)
    IN  /\ Contains(u, ".")
        /\ LET ip == SubSeq(u, 1, DotAt(u) - 1)
               fp == SubSeq(u, DotAt(u) + 1, Len(u))
           IN  AllDigits(ip) /\ AllDigits(fp) /\ Len(ip) + Len(fp) > 0

\* The float's value n / 10^e with the fraction's trailing zeros dropped;
\* an integral float is n / 10^1 with n a multiple of 10.
RECURSIVE StripZeros(_)
StripZeros(fp) ==
    IF fp # "" /\ CharAt(fp, Len(fp)) = "0"
    THEN StripZeros(SubSeq(fp, 1, Len(fp) - 1)) ELSE fp

FloatOf(s) ==
    LET u == Unsigned(s)
        ip == SubSeq(u, 1, DotAt(u) - 1)
        fp == StripZeros(SubSeq(u, DotAt(u) + 1, Len(u)))
        fz == IF fp = "" THEN "0" ELSE fp
    IN  FloatVal(Signed(s, NatVal(ip \o fz)), Len(fz))

\* _parse_detail_salary: float(val_str) if '.' in val_str else int(val_str),
\* the text itself on ValueError.
SalaryNumber(val_str) ==
    IF Contains(val_str, ".")
    THEN IF FloatOk(val_str) THEN FloatOf(val_str) ELSE StrVal(val_str)
    ELSE IF IntOk(val_str)
         THEN IntVal(Signed(val_str, NatVal(Unsigned(val_str))))
         ELSE StrVal(val_str)

\* _parse_detail_bonus: int(val_str), the text itself on ValueError.
BonusNumber(val_str) ==
    IF IntOk(val_str)
    THEN IntVal(Signed(val_str, NatVal(Unsigned(val_str))))
    ELSE StrVal(val_str)

\* Field names (ASCII for the source's Japanese keys):
\*   Gross = total payment, Net = net payment, Overtime = total overtime,
\*   LeaveHours = paid-leave hours taken, LeaveUsedDays / LeaveLeftDays =
\*   paid-leave days used / remaining (record keys), HolidayUsedDays /
\*   HolidayLeftDays = the same two as the detail page labels spell them;
\*   Bonus, Deduction, IncomeTax, SocialIns = the bonus fields;
\*   Period / PayDate = the record's period identifier.
SalaryKeys ==
    {"Gross", "Net", "Overtime", "LeaveHours", "LeaveUsedDays", "LeaveLeftDays"}
BonusKeys ==
    {"Bonus", "Deduction", "Net", "Gross", "IncomeTax", "SocialIns"}

\* mapping of _parse_detail_salary: page label -> record key
SalaryMapping ==
    [k \in {"Gross", "Net", "Overtime", "LeaveHours",
            "HolidayUsedDays", "HolidayLeftDays"} |->
        IF k = "HolidayUsedDays" THEN "LeaveUsedDays"
        ELSE IF k = "HolidayLeftDays" THEN "LeaveLeftDays"
        ELSE k]

\* A detail document: whether <div id="Html"> exists, and its <dl> elements,
\* each with the text of its <dt> and <dd> (Absent when the element is
\* missing).
Dl(dt, dd) == [dt |-> dt, dd |-> dd]
Detail(div, dls) == [div |-> div, dls |-> dls]

RECURSIVE SalaryFill(_, _)
SalaryFill(data, dls) ==
    IF dls = << >> THEN data
    ELSE LET dl == Head(dls)
             next ==
                IF /\ dl.dt # Absent /\ dl.dd # Absent
                   /\ dl.dt \in DOMAIN SalaryMapping
                THEN [data EXCEPT ![SalaryMapping[dl.dt]] =
                        SalaryNumber(RemoveCommas(dl.dd))]
                ELSE data
         IN  SalaryFill(next, Tail(dls))

ParseDetailSalary(doc) ==
    LET data == [k \in SalaryKeys |-> NA]
    IN  IF doc.div THEN SalaryFill(data, doc.dls) ELSE data

RECURSIVE BonusFill(_, _)
BonusFill(data, dls) ==
    IF dls = << >> THEN data
    ELSE LET dl == Head(dls)
             next ==
                IF /\ dl.dt # Absent /\ dl.dd # Absent
                   /\ dl.dt \in DOMAIN data
                THEN [data EXCEPT ![dl.dt] = BonusNumber(RemoveCommas(dl.dd))]
                ELSE data
         IN  BonusFill(next, Tail(dls))

ParseDetailBonus(doc) ==
    LET data == [k \in BonusKeys |-> NA]
    IN  IF doc.div THEN BonusFill(data, doc.dls) ELSE data

\* data["..."] = d_text : the record with its period identifier added.
WithKey(data, key, d_text) ==
    [k \in DOMAIN data \cup {key} |->
        IF k = key THEN StrVal(d_text) ELSE data[k]]

\* The detail documents the portal serves.
DetailDocs ==
    { Detail(TRUE, << Dl("Gross", "1,234"), Dl("Overtime", "12.50"),
                      Dl("Bonus", "500,000") >>),
      Detail(FALSE, << >>) }

\* ------------------------------------------------------------------ state
VARIABLES
    company_code,       \* os.getenv("LOGIN_COMPANY_CODE"), "" when unset
    current_form_data,  \* PayslipHandler.current_form_data
    current_url,        \* PayslipHandler.current_url
    menu_url,           \* PayslipHandler.menu_url
    menu_form_data,     \* PayslipHandler.menu_form_data
    pc,                 \* position of the running call, "idle" between calls
    args,               \* arguments of the running (or last) call
    list_url,           \* local list_url of the fetch methods (NoUrl and
    list_form,          \* local list_form: EmptyForm outside their scope);
                        \* in update_schedule its locals post_url and form
    targets,            \* local targets: the candidates, <<d_text, btn_name>>
    idx,                \* position of the for loop in targets
    results,            \* local results; the return value once pc = "idle"
    ret,                \* return value of login
    lastResp,           \* portal: URL and hidden inputs of its newest response
    req,                \* the newest request of the running (or last) call
    trace,              \* requests of the running (or last) call, in order
    scanned,            \* the list table the running (or last) call scanned
    phase,              \* "ready" from a successful login until the next
                        \* login call or the logout request
    prior,              \* the first of two successive fetch_bonus_data calls
    session,            \* BaseWebHandler.session: "open" or "closed"
    today,              \* datetime.date.today(), as <<year, month, day>>
    caller,             \* the calling code (run_main_logic, handle_submit):
                        \* its inputs and what it has done so far
    errors              \* ScheduleHandler.update_schedule: local errors

handlerVars == <<current_form_data, current_url, menu_url, menu_form_data>>
frameVars == <<args, list_url, list_form, targets, idx, results, ret>>
wireVars == <<lastResp, req, trace>>
hostVars == <<company_code, session, today>>
callerVars == <<prior, caller>>
schedVars == <<errors>>
vars ==
    <<hostVars, handlerVars, pc, frameVars, wireVars, scanned, phase,
      callerVars, schedVars>>

NoHidden ==
    [VIEWSTATE |-> Absent, EVENTVALIDATION |-> Absent,
     VIEWSTATEGENERATOR |-> Absent]
NoResp == [url |-> NoUrl, hidden |-> NoHidden]
NoDetail == Detail(FALSE, << >>)
NoReq ==
    [kind |-> "none", label |-> "", url |-> NoUrl, target |-> "",
     form |-> EmptyForm, ts |-> NoTimestamp, from |-> NoUrl,
     fresh |-> NoHidden, live |-> FALSE]
NoArgs == [call |-> "none"]
NoRet == [ok |-> FALSE, msg |-> ""]
NotScanned == [done |-> FALSE, table |-> NoTable]
NoPrior ==
    [stage |-> 0, records |-> 0, candidates |-> 0, scanned |-> NotScanned]
NoCaller == [prog |-> "none"]
NoDate == <<0, 0, 0>>

\* ----------------------------------------------------------------- portal
\* What a request can be answered with.
Responses(pages, queries, tables, details) ==
    [url : {Url(p, q) : p \in pages, q \in queries},
     hidden : HiddenDocs, table : tables, detail : details]

\* session.get / session.post: the request as sent, with the portal's
\* newest response at that moment and whether a login is in force.
Request(kind, label, url, target, form, ts) ==
    [kind |-> kind, label |-> label, url |-> url, target |-> target,
     form |-> form, ts |-> ts, from |-> lastResp.url,
     fresh |-> lastResp.hidden, live |-> phase = "ready"]

Entry(r, ok) ==
    [kind |-> r.kind, label |-> r.label, target |-> r.target, ok |-> ok]

\* The request is answered with resp.
Answered(r, resp) ==
    /\ r.url # NoUrl
    /\ req' = r
    /\ trace' = Append(trace, Entry(r, TRUE))
    /\ lastResp' = [url |-> resp.url, hidden |-> resp.hidden]

\* The request raises: the transport fails, or the URL is the empty string
\* and nothing is sent.
Raised(r) ==
    /\ req' = IF r.url = NoUrl THEN req ELSE r
    /\ trace' = IF r.url = NoUrl THEN trace ELSE Append(trace, Entry(r, FALSE))
    /\ UNCHANGED lastResp

\* Variant: a field the document lacks keeps the value it had.
UpdateAspnetStateMerged(resp) ==
    /\ current_url' = resp.url
    /\ current_form_data' =
        [name \in DOMAIN ExtractState(resp.hidden) |->
            IF resp.hidden[name] = Absent /\ name \in DOMAIN current_form_data
            THEN current_form_data[name]
            ELSE ExtractState(resp.hidden)[name]]

\* _update_aspnet_state(soup, url)
UpdateAspnetState(resp) ==
    /\ current_url' = resp.url
    /\ current_form_data' = ExtractState(resp.hidden)

\* ------------------------------------------------------------------ login
LoginUrl == Url(LoginPage, << <<"c", company_code>> >>)

\* Variant: login() without the configuration check; the login page is
\* requested with an empty company code.
LoginCallDeferred ==
    /\ pc = "idle"
    /\ args' = [call |-> "login"]
    /\ trace' = << >>
    /\ scanned' = NotScanned
    /\ phase' = "none"
    /\ results' = << >>
    /\ ret' = NoRet
    /\ pc' = "login_get"
    /\ UNCHANGED <<hostVars, schedVars, callerVars, handlerVars, list_url, list_form, targets,
                   idx, lastResp>>
    /\ req' = NoReq

\* login(): the configuration check, up to the first request.
LoginCall ==
    /\ pc = "idle"
    /\ args' = [call |-> "login"]
    /\ trace' = << >>
    /\ scanned' = NotScanned
    /\ phase' = "none"
    /\ results' = << >>
    /\ IF company_code = ""
       THEN /\ ret' = [ok |-> FALSE, msg |-> "LOGIN_COMPANY_CODE unset"]
            /\ pc' = "idle"
       ELSE /\ ret' = NoRet
            /\ pc' = "login_get"
    /\ UNCHANGED <<hostVars, schedVars, callerVars, handlerVars, list_url, list_form, targets,
                   idx, lastResp>>
    /\ req' = NoReq

\* login(): GET of the login page.
LoginGet ==
    /\ pc = "login_get"
    /\ LET r == Request("login_get", "", LoginUrl, "", EmptyForm, NoTimestamp)
       IN  \/ \E resp \in Responses({LoginPage}, {LoginUrl.query},
                                    {NoTable}, {NoDetail}) :
                /\ Answered(r, resp)
                /\ UpdateAspnetState(resp)
                /\ pc' = "login_post"
                /\ UNCHANGED ret
           \/ /\ Raised(r)
              /\ ret' = [ok |-> FALSE, msg |-> "login error"]
              /\ pc' = "idle"
              /\ UNCHANGED <<current_url, current_form_data>>
    /\ UNCHANGED <<hostVars, schedVars, callerVars, menu_url, menu_form_data, args, list_url,
                   list_form, targets, idx, results, scanned, phase>>

\* Variant: the response is promoted to the home state before the landing
\* URL is checked.
LoginPostPromotesEarly ==
    /\ pc = "login_post"
    /\ pc' = "idle"
    /\ LET r == Request("login_post", "", LoginUrl, "", current_form_data,
                        NoTimestamp)
       IN  \/ \E resp \in Responses({MenuPage, LoginPage}, {<< >>},
                                    {NoTable}, {NoDetail}) :
                /\ Answered(r, resp)
                /\ UpdateAspnetState(resp)
                /\ menu_url' = resp.url
                /\ menu_form_data' = ExtractState(resp.hidden)
                /\ IF ~UrlHas(resp.url, MenuPage)
                   THEN /\ ret' = [ok |-> FALSE, msg |-> "login failed"]
                        /\ UNCHANGED phase
                   ELSE /\ ret' = [ok |-> TRUE, msg |-> "login success"]
                        /\ phase' = "ready"
           \/ /\ Raised(r)
              /\ ret' = [ok |-> FALSE, msg |-> "login error"]
              /\ UNCHANGED <<handlerVars, phase>>
    /\ UNCHANGED <<hostVars, schedVars, callerVars, args, list_url, list_form, targets,
                   idx, results, scanned>>

\* login(): POST of the credentials and the check of the landing URL.
LoginPost ==
    /\ pc = "login_post"
    /\ pc' = "idle"
    /\ LET r == Request("login_post", "", LoginUrl, "", current_form_data,
                        NoTimestamp)
       IN  \/ \E resp \in Responses({MenuPage, LoginPage}, {<< >>},
                                    {NoTable}, {NoDetail}) :
                /\ Answered(r, resp)
                /\ IF ~UrlHas(resp.url, MenuPage)
                   THEN /\ ret' = [ok |-> FALSE, msg |-> "login failed"]
                        /\ UNCHANGED <<handlerVars, phase>>
                   ELSE /\ UpdateAspnetState(resp)
                        /\ menu_url' = resp.url
                        /\ menu_form_data' = ExtractState(resp.hidden)
                        /\ ret' = [ok |-> TRUE, msg |-> "login success"]
                        /\ phase' = "ready"
           \/ /\ Raised(r)
              /\ ret' = [ok |-> FALSE, msg |-> "login error"]
              /\ UNCHANGED <<handlerVars, phase>>
    /\ UNCHANGED <<hostVars, schedVars, callerVars, args, list_url, list_form, targets, idx,
                   results, scanned>>

\* ----------------------------------------------------------------- logout
\* Variant: logout() without the guard on menu_url.
LogoutCallUnguarded ==
    /\ pc = "idle"
    /\ args' = [call |-> "logout"]
    /\ trace' = << >>
    /\ scanned' = NotScanned
    /\ results' = << >>
    /\ ret' = NoRet
    /\ pc' = "logout_post"
    /\ req' = NoReq
    /\ UNCHANGED <<hostVars, schedVars, callerVars, handlerVars, list_url, list_form,
                   targets, idx, lastResp, phase>>

\* logout(): the guard on menu_url.
LogoutCall ==
    /\ pc = "idle"
    /\ args' = [call |-> "logout"]
    /\ trace' = << >>
    /\ scanned' = NotScanned
    /\ phase' = IF menu_url = NoUrl THEN "none" ELSE phase
    /\ results' = << >>
    /\ ret' = NoRet
    /\ pc' = IF menu_url = NoUrl THEN "idle" ELSE "logout_post"
    /\ UNCHANGED <<hostVars, schedVars, callerVars, handlerVars, list_url, list_form, targets,
                   idx, lastResp>>
    /\ req' = NoReq

\* logout(): POST of the cmdLogOut event.
LogoutPost ==
    /\ pc = "logout_post"
    /\ pc' = "idle"
    /\ LET r == Request("logout", "", current_url, "cmdLogOut",
                        current_form_data, NoTimestamp)
       IN  \/ \E resp \in Responses({LoginPage}, {<< >>},
                                    {NoTable}, {NoDetail}) :
                Answered(r, resp)
           \/ Raised(r)
    /\ phase' = "none"
    /\ UNCHANGED <<hostVars, schedVars, callerVars, handlerVars, frameVars, scanned>>

\* ----------------------------------------------------- fetch_salary_data
\* Variant: the except clause returns an empty list.
FetchAbortedDropsResults(r) ==
    /\ Raised(r)
    /\ pc' = "idle"
    /\ list_url' = NoUrl
    /\ list_form' = EmptyForm
    /\ results' = << >>
    /\ UNCHANGED <<handlerVars, targets, idx, scanned>>

\* The except clause of the fetch methods: the error is logged and the
\* method returns results.
FetchAborted(r) ==
    /\ Raised(r)
    /\ pc' = "idle"
    /\ list_url' = NoUrl
    /\ list_form' = EmptyForm
    /\ UNCHANGED <<handlerVars, targets, idx, results, scanned>>

\* fetch_salary_data(target_dates_set): results = [] and the early return on
\* an empty target set.
SalaryCall(target_dates_set) ==
    /\ pc = "idle"
    /\ args' = [call |-> "salary", target_dates_set |-> target_dates_set]
    /\ pc' = IF target_dates_set = {} THEN "idle" ELSE "sal_show"
    /\ results' = << >>
    /\ list_url' = NoUrl
    /\ list_form' = EmptyForm
    /\ targets' = << >>
    /\ idx' = 0
    /\ ret' = NoRet
    /\ trace' = << >>
    /\ scanned' = NotScanned
    /\ req' = NoReq
    /\ UNCHANGED <<hostVars, schedVars, callerVars, handlerVars, lastResp, phase>>

FetchSalaryCall == \E target_dates_set \in SalaryTargetSets :
    SalaryCall(target_dates_set)

\* Menu -> salary list, and the scan of the list table for candidates.
SalaryShow ==
    /\ pc = "sal_show"
    /\ LET r == Request("show", "", menu_url, "cmdShowSalary", menu_form_data,
                        NoTimestamp)
       IN  \/ \E resp \in Responses({SalaryListPage}, {<< >>}, Tables,
                                    {NoDetail}) :
                /\ Answered(r, resp)
                /\ UpdateAspnetState(resp)
                /\ list_url' = resp.url
                /\ list_form' = ExtractState(resp.hidden)
                /\ targets' = SalaryTargets(resp.table, args.target_dates_set)
                /\ idx' = 1
                /\ scanned' = [done |-> TRUE, table |-> resp.table]
                /\ pc' = IF targets' = << >> THEN "sal_menu" ELSE "sal_detail"
                /\ UNCHANGED <<menu_url, menu_form_data, results>>
           \/ FetchAborted(r)
    /\ UNCHANGED <<hostVars, schedVars, callerVars, args, ret, phase>>

\* Variant: the loop walks the candidates from the last to the first.
SalaryDetailReversed ==
    /\ pc = "sal_detail"
    /\ LET d_text == targets[Len(targets) + 1 - idx][1]
           btn_name == targets[Len(targets) + 1 - idx][2]
           r == Request("detail", d_text, list_url, btn_name, list_form,
                        NoTimestamp)
       IN  \/ \E resp \in Responses({DetailPage}, DetailQueries,
                                    {NoTable}, DetailDocs) :
                /\ Answered(r, resp)
                /\ results' = Append(results,
                        WithKey(ParseDetailSalary(resp.detail), "Period",
                                d_text))
                /\ UpdateAspnetState(resp)
                /\ pc' = "sal_back"
                /\ UNCHANGED <<menu_url, menu_form_data, list_url, list_form,
                               targets, idx, scanned>>
           \/ FetchAborted(r)
    /\ UNCHANGED <<hostVars, schedVars, callerVars, args, ret, phase>>

\* Loop body, first half: the candidate's detail page is requested and parsed.
SalaryDetail ==
    /\ pc = "sal_detail"
    /\ LET d_text == targets[idx][1]
           btn_name == targets[idx][2]
           r == Request("detail", d_text, list_url, btn_name, list_form,
                        NoTimestamp)
       IN  \/ \E resp \in Responses({DetailPage}, DetailQueries,
                                    {NoTable}, DetailDocs) :
                /\ Answered(r, resp)
                /\ results' = Append(results,
                        WithKey(ParseDetailSalary(resp.detail), "Period",
                                d_text))
                /\ UpdateAspnetState(resp)
                /\ pc' = "sal_back"
                /\ UNCHANGED <<menu_url, menu_form_data, list_url, list_form,
                               targets, idx, scanned>>
           \/ FetchAborted(r)
    /\ UNCHANGED <<hostVars, schedVars, callerVars, args, ret, phase>>

\* Loop body, second half: cmdGoBack from the detail page, and the refresh of
\* list_url and list_form from the response.
SalaryGoBack ==
    /\ pc = "sal_back"
    /\ LET r == Request("goback", targets[idx][1], current_url, "cmdGoBack",
                        current_form_data, GetTimestampFromUrl(current_url))
       IN  \/ \E resp \in Responses({SalaryListPage}, {<< >>}, {NoTable},
                                    {NoDetail}) :
                /\ Answered(r, resp)
                /\ UpdateAspnetState(resp)
                /\ list_url' = resp.url
                /\ list_form' = ExtractState(resp.hidden)
                /\ idx' = idx + 1
                /\ pc' = IF idx + 1 > Len(targets)
                         THEN "sal_menu" ELSE "sal_detail"
                /\ UNCHANGED <<menu_url, menu_form_data, targets, results,
                               scanned>>
           \/ FetchAborted(r)
    /\ UNCHANGED <<hostVars, schedVars, callerVars, args, ret, phase>>

\* After the loop: cmdGoBack from the list page; the menu response becomes
\* the home state.
SalaryBackToMenu ==
    /\ pc = "sal_menu"
    /\ LET r == Request("menu", "", list_url, "cmdGoBack", list_form,
                        NoTimestamp)
       IN  \/ \E resp \in Responses({MenuPage}, {<< >>}, {NoTable},
                                    {NoDetail}) :
                /\ Answered(r, resp)
                /\ UpdateAspnetState(resp)
                /\ menu_url' = resp.url
                /\ menu_form_data' = ExtractState(resp.hidden)
                /\ pc' = "idle"
                /\ list_url' = NoUrl
                /\ list_form' = EmptyForm
                /\ UNCHANGED <<targets, idx, results, scanned>>
           \/ FetchAborted(r)
    /\ UNCHANGED <<hostVars, schedVars, callerVars, args, ret, phase>>

\* ------------------------------------------------------ fetch_bonus_data
\* fetch_bonus_data(target_reiwa_year, existing_dates): results = [].
BonusCall(target_reiwa_year, existing_dates) ==
    /\ pc = "idle"
    /\ args' = [call |-> "bonus", target_reiwa_year |-> target_reiwa_year,
                existing_dates |-> existing_dates]
    /\ pc' = "bon_show"
    /\ results' = << >>
    /\ list_url' = NoUrl
    /\ list_form' = EmptyForm
    /\ targets' = << >>
    /\ idx' = 0
    /\ ret' = NoRet
    /\ trace' = << >>
    /\ scanned' = NotScanned
    /\ req' = NoReq
    /\ UNCHANGED <<hostVars, schedVars, handlerVars, lastResp, phase>>

FetchBonusCall ==
    /\ \E input \in BonusInputs : BonusCall(input[1], input[2])
    /\ UNCHANGED callerVars

\* Variant: the response that is not the bonus list is taken over as the
\* handler's current page before the call returns.
BonusShowRefreshes ==
    /\ pc = "bon_show"
    /\ LET r == Request("show", "", menu_url, "cmdShowBonus", menu_form_data,
                        NoTimestamp)
       IN  \/ \E resp \in Responses({BonusListPage, MenuPage}, {<< >>},
                                    Tables, {NoDetail}) :
                /\ Answered(r, resp)
                /\ UpdateAspnetState(resp)
                /\ IF ~UrlHas(resp.url, BonusListPage)
                   THEN /\ resp.table = NoTable
                        /\ pc' = "idle"
                        /\ UNCHANGED <<menu_url, menu_form_data, list_url,
                                       list_form, targets, idx, results,
                                       scanned>>
                   ELSE /\ list_url' = resp.url
                        /\ list_form' = ExtractState(resp.hidden)
                        /\ targets' = BonusTargets(resp.table,
                                args.target_reiwa_year, args.existing_dates)
                        /\ idx' = 1
                        /\ scanned' = [done |-> TRUE, table |-> resp.table]
                        /\ pc' = IF targets' = << >>
                                 THEN "bon_menu" ELSE "bon_detail"
                        /\ UNCHANGED <<menu_url, menu_form_data, results>>
           \/ FetchAborted(r)
    /\ UNCHANGED <<hostVars, schedVars, callerVars, args, ret, phase>>

\* Menu -> bonus list, the check of the landing URL, and the scan of the
\* list table for candidates.
BonusShow ==
    /\ pc = "bon_show"
    /\ LET r == Request("show", "", menu_url, "cmdShowBonus", menu_form_data,
                        NoTimestamp)
       IN  \/ \E resp \in Responses({BonusListPage, MenuPage}, {<< >>},
                                    Tables, {NoDetail}) :
                /\ Answered(r, resp)
                /\ IF ~UrlHas(resp.url, BonusListPage)
                   THEN /\ resp.table = NoTable
                        /\ pc' = "idle"
                        /\ UNCHANGED <<handlerVars, list_url, list_form,
                                       targets, idx, results, scanned>>
                   ELSE /\ UpdateAspnetState(resp)
                        /\ list_url' = resp.url
                        /\ list_form' = ExtractState(resp.hidden)
                        /\ targets' = BonusTargets(resp.table,
                                args.target_reiwa_year, args.existing_dates)
                        /\ idx' = 1
                        /\ scanned' = [done |-> TRUE, table |-> resp.table]
                        /\ pc' = IF targets' = << >>
                                 THEN "bon_menu" ELSE "bon_detail"
                        /\ UNCHANGED <<menu_url, menu_form_data, results>>
           \/ FetchAborted(r)
    /\ UNCHANGED <<hostVars, schedVars, callerVars, args, ret, phase>>

\* Loop body, first half: the candidate's detail page is requested and parsed.
BonusDetail ==
    /\ pc = "bon_detail"
    /\ LET d_text == targets[idx][1]
           btn_name == targets[idx][2]
           r == Request("detail", d_text, list_url, btn_name, list_form,
                        NoTimestamp)
       IN  \/ \E resp \in Responses({DetailPage}, DetailQueries,
                                    {NoTable}, DetailDocs) :
                /\ Answered(r, resp)
                /\ results' = Append(results,
                        WithKey(ParseDetailBonus(resp.detail), "PayDate",
                                d_text))
                /\ UpdateAspnetState(resp)
                /\ pc' = "bon_back"
                /\ UNCHANGED <<menu_url, menu_form_data, list_url, list_form,
                               targets, idx, scanned>>
           \/ FetchAborted(r)
    /\ UNCHANGED <<hostVars, schedVars, callerVars, args, ret, phase>>

\* Loop body, second half: cmdGoBack from the detail page, and the refresh of
\* list_url and list_form from the response.
BonusGoBack ==
    /\ pc = "bon_back"
    /\ LET r == Request("goback", targets[idx][1], current_url, "cmdGoBack",
                        current_form_data, GetTimestampFromUrl(current_url))
       IN  \/ \E resp \in Responses({BonusListPage}, {<< >>}, {NoTable},
                                    {NoDetail}) :
                /\ Answered(r, resp)
                /\ UpdateAspnetState(resp)
                /\ list_url' = resp.url
                /\ list_form' = ExtractState(resp.hidden)
                /\ idx' = idx + 1
                /\ pc' = IF idx + 1 > Len(targets)
                         THEN "bon_menu" ELSE "bon_detail"
                /\ UNCHANGED <<menu_url, menu_form_data, targets, results,
                               scanned>>
           \/ FetchAborted(r)
    /\ UNCHANGED <<hostVars, schedVars, callerVars, args, ret, phase>>

\* After the loop: cmdGoBack from the list page; the menu response becomes
\* the home state.
BonusBackToMenu ==
    /\ pc = "bon_menu"
    /\ LET r == Request("menu", "", list_url, "cmdGoBack", list_form,
                        NoTimestamp)
       IN  \/ \E resp \in Responses({MenuPage}, {<< >>}, {NoTable},
                                    {NoDetail}) :
                /\ Answered(r, resp)
                /\ UpdateAspnetState(resp)
                /\ menu_url' = resp.url
                /\ menu_form_data' = ExtractState(resp.hidden)
                /\ pc' = "idle"
                /\ list_url' = NoUrl
                /\ list_form' = EmptyForm
                /\ UNCHANGED <<targets, idx, results, scanned>>
           \/ FetchAborted(r)
    /\ UNCHANGED <<hostVars, schedVars, callerVars, args, ret, phase>>

\* ---------------------------------------------------------- specification
Init ==
    /\ company_code \in {"", "c01"}
    /\ current_form_data = EmptyForm
    /\ current_url = NoUrl
    /\ menu_url = NoUrl
    /\ menu_form_data = EmptyForm
    /\ pc = "idle"
    /\ args = NoArgs
    /\ list_url = NoUrl
    /\ list_form = EmptyForm
    /\ targets = << >>
    /\ idx = 0
    /\ results = << >>
    /\ ret = NoRet
    /\ lastResp = NoResp
    /\ req = NoReq
    /\ trace = << >>
    /\ scanned = NotScanned
    /\ phase = "none"
    /\ prior = NoPrior
    /\ session = "open"
    /\ today = NoDate
    /\ caller = NoCaller
    /\ errors = << >>

Next ==
    \/ LoginCall
    \/ LoginGet
    \/ LoginPost
    \/ LogoutCall
    \/ LogoutPost
    \/ FetchSalaryCall
    \/ SalaryShow
    \/ SalaryDetail
    \/ SalaryGoBack
    \/ SalaryBackToMenu
    \/ FetchBonusCall
    \/ BonusShow
    \/ BonusDetail
    \/ BonusGoBack
    \/ BonusBackToMenu

Spec == Init /\ [][Next]_vars

\* ------------------------------------------- two successive bonus fetches
\* A caller that logs in and then calls fetch_bonus_data twice, the second
\* time with the already-persisted set extended by the period labels of the
\* first call's records.
RECURSIVE LabelsOf(_, _)
LabelsOf(records, key) ==
    IF records = << >> THEN {}
    ELSE {Head(records)[key].s} \cup LabelsOf(Tail(records), key)

TwiceLogin ==
    /\ prior.stage = 0
    /\ phase # "ready"
    /\ LoginCall

TwiceFirst ==
    /\ prior.stage = 0
    /\ phase = "ready"
    /\ \E input \in BonusInputs : BonusCall(input[1], input[2])
    /\ prior' = [prior EXCEPT !.stage = 1]
    /\ UNCHANGED caller

TwiceSecond ==
    /\ prior.stage = 1
    /\ BonusCall(args.target_reiwa_year,
                 args.existing_dates \cup LabelsOf(results, "PayDate"))
    /\ prior' = [stage |-> 2, records |-> Len(results),
                 candidates |-> Len(targets), scanned |-> scanned]
    /\ UNCHANGED caller

\* The portal shows the second call the list table it showed the first.
TwiceShow ==
    /\ BonusShow
    /\ (prior.stage = 2 /\ prior.scanned.done /\ scanned'.done) =>
            scanned' = prior.scanned

NextTwice ==
    \/ TwiceLogin
    \/ LoginGet
    \/ LoginPost
    \/ TwiceFirst
    \/ TwiceSecond
    \/ TwiceShow
    \/ BonusDetail
    \/ BonusGoBack
    \/ BonusBackToMenu

SpecTwice == Init /\ [][NextTwice]_vars

\* ----------------------------------------------------------------- claims
InFetch == args.call \in {"salary", "bonus"}
Returned == pc = "idle"
LastEntry == trace[Len(trace)]
PeriodKey == IF args.call = "salary" THEN "Period" ELSE "PayDate"
RecordLabel(i) == results[i][PeriodKey].s
DetailIdx == {i \in 1..Len(trace) : trace[i].kind = "detail"}
HomeIsNewest ==
    /\ UrlHas(lastResp.url, MenuPage)
    /\ menu_url = lastResp.url
    /\ menu_form_data = ExtractState(lastResp.hidden)

\* C1: every POST of a session (the login POST, and every POST from a
\* successful login up to and including the logout POST) carries the
\* hidden-field snapshot of the portal's newest response at the moment it is
\* sent, over any sequence of calls.
C1_PostCarriesNewestSnapshot ==
    (req.kind = "login_post" \/ req.live) =>
        req.form = ExtractState(req.fresh)

\* C3: from a successful login on, over any sequence of fetch calls, every
\* call returns with the portal on the menu page and the home state equal to
\* that newest menu response, and a show event is only posted from the menu.
C3_FetchStartsAndEndsAtMenu ==
    phase = "ready" =>
        /\ Returned => HomeIsNewest
        /\ req.target \in {"cmdShowSalary", "cmdShowBonus"} =>
                UrlHas(req.from, MenuPage)

\* C4: login succeeds exactly when its POST is answered from the menu path;
\* then the home state is that response's URL and snapshot; every other
\* login step leaves the home state as it was, and a failure is returned as
\* a message.
LoginLanded ==
    /\ pc = "login_post"
    /\ Len(trace') = Len(trace) + 1
    /\ trace'[Len(trace')].ok
    /\ UrlHas(lastResp'.url, MenuPage)

C4_LoginOutcome ==
    [][ args'.call = "login" =>
            /\ (pc' = "idle" /\ ret'.ok) <=> LoginLanded
            /\ LoginLanded =>
                    /\ menu_url' = lastResp'.url
                    /\ menu_form_data' = ExtractState(lastResp'.hidden)
            /\ ~LoginLanded => UNCHANGED <<menu_url, menu_form_data>>
            /\ (pc' = "idle" /\ ~ret'.ok) => ret'.msg # "" ]_vars

\* A re-login is refused while an earlier login's home state is held.
C4_Witness ==
    /\ Returned /\ args.call = "login" /\ ~ret.ok
    /\ req.kind = "login_post" /\ LastEntry.ok
    /\ menu_url # NoUrl

\* C5: a fetch call returns exactly the records of the candidates whose
\* detail page was answered, in order, whatever request failed afterwards; a
\* record once collected stays, and a missing table gives no record.
RECURSIVE OkDetailLabels(_)
OkDetailLabels(t) ==
    IF t = << >> THEN << >>
    ELSE (IF Head(t).kind = "detail" /\ Head(t).ok
          THEN <<Head(t).label>> ELSE << >>) \o OkDetailLabels(Tail(t))

C5_PartialResultsKept ==
    InFetch =>
        /\ [i \in 1..Len(results) |-> RecordLabel(i)] = OkDetailLabels(trace)
        /\ (scanned.done /\ ~scanned.table.found) => results = << >>

\* One record was collected, then the second candidate's request failed.
C5_Witness ==
    /\ Returned /\ InFetch
    /\ Len(targets) = 2 /\ Len(results) = 1
    /\ ~LastEntry.ok /\ LastEntry.kind = "detail"

\* C2: between two detail POSTs of one fetch call there is an answered
\* cmdGoBack POST for the first one, sent to the URL of that detail response
\* with the timestamp of that URL's query, and the next detail POST goes to
\* the URL of the go-back response with that response's snapshot.
C2_TimestampIn(query) ==
    LET hits == {i \in 1..Len(query) :
                    query[i][1] = "timestamp" /\ query[i][2] # ""}
    IN  IF hits = {} THEN NoTimestamp
        ELSE query[CHOOSE i \in hits : \A j \in hits : i <= j][2]

C2_BackThroughList ==
    InFetch =>
        /\ \A i \in DetailIdx, j \in DetailIdx :
                i < j => \E m \in (i + 1)..(j - 1) :
                            /\ trace[m].kind = "goback" /\ trace[m].ok
                            /\ trace[m].label = trace[i].label
        /\ (Len(trace) >= 2 /\ req.kind = "goback") =>
                /\ trace[Len(trace) - 1].kind = "detail"
                /\ req.url = req.from
                /\ req.ts = C2_TimestampIn(req.from.query)
        /\ (Len(trace) >= 2 /\ req.kind = "detail"
                /\ trace[Len(trace) - 1].kind = "goback") =>
                /\ req.url = req.from
                /\ req.form = ExtractState(req.fresh)

\* The second candidate's detail page is requested after a go-back.
C2_Witness ==
    /\ InFetch /\ Cardinality(DetailIdx) = 2
    /\ req.kind = "detail" /\ LastEntry.ok

\* C6: a row of the scanned salary list is a candidate exactly when the
\* first 8 characters of its third cell are in the target set, with the
\* button name of its second cell as event target.
Pairs(rows) == [i \in 1..Len(rows) |-> <<rows[i].label, rows[i].btn>>]
C6_PrefixInTargets(row) ==
    row.cells >= 3 /\ Prefix(row.label, 8) \in args.target_dates_set
C6_HasButton(row) == C6_PrefixInTargets(row) /\ row.btn # NoBtn

C6_CandidateIffPrefixInTargets ==
    (args.call = "salary" /\ scanned.done) =>
        targets = Pairs(SelectSeq(scanned.table.rows, C6_PrefixInTargets))

\* C6 as amended: ... and its second cell holds a button.
C6_CandidateIffPrefixAndButton ==
    (args.call = "salary" /\ scanned.done) =>
        targets = Pairs(SelectSeq(scanned.table.rows, C6_HasButton))

\* The two-row table of the scenario: only the second row is a candidate.
C6_Witness ==
    /\ args.call = "salary" /\ scanned.done
    /\ args.target_dates_set = {"RW07Y07M"}
    /\ scanned.table.rows = << Row(3, "RW07Y06M25D", "btnA"),
                               Row(3, "RW07Y07M", "btnB") >>
    /\ targets = << <<"RW07Y07M", "btnB">> >>

\* C7: fetch_salary_data returns no two records of the same period, and
\* only records of periods that are in the target set and in the table.
RecordsOf(p) == {i \in 1..Len(results) : Prefix(RecordLabel(i), 8) = p}
ButtonRowsOf(p) ==
    {i \in 1..Len(scanned.table.rows) :
        LET row == scanned.table.rows[i]
        IN  row.cells >= 3 /\ row.btn # NoBtn /\ Prefix(row.label, 8) = p}
Periods ==
    UNION SalaryTargetSets \cup {Prefix(row.label, 8) : row \in RowSet}

C7_OneRecordPerPeriod ==
    args.call = "salary" =>
        \A p \in Periods :
            /\ Cardinality(RecordsOf(p)) <= 1
            /\ (p \notin args.target_dates_set \/ ButtonRowsOf(p) = {}) =>
                    RecordsOf(p) = {}

\* C7 as amended: at most one record per button row of the period.
C7_OneRecordPerRow ==
    args.call = "salary" =>
        \A p \in Periods :
            /\ Cardinality(RecordsOf(p)) <= Cardinality(ButtonRowsOf(p))
            /\ p \notin args.target_dates_set => RecordsOf(p) = {}

\* Two periods are asked for, the table has only one of them.
C7_Witness ==
    /\ Returned /\ args.call = "salary" /\ scanned.done
    /\ \E p \in args.target_dates_set : ButtonRowsOf(p) = {}
    /\ Len(results) = 1 /\ LastEntry.kind = "menu" /\ LastEntry.ok

\* C8: a row of the scanned bonus list is a candidate exactly when the
\* fiscal-year label occurs in its period label and the whole period label
\* is not in the already-persisted set.
C8_YearAndNew(row) ==
    /\ row.cells >= 3
    /\ Contains(row.label, args.target_reiwa_year)
    /\ row.label \notin args.existing_dates
C8_HasButton(row) == C8_YearAndNew(row) /\ row.btn # NoBtn

C8_CandidateIffYearAndNew ==
    (args.call = "bonus" /\ scanned.done) =>
        targets = Pairs(SelectSeq(scanned.table.rows, C8_YearAndNew))

\* C8 as amended: ... and its second cell holds a button.
C8_CandidateIffYearNewAndButton ==
    (args.call = "bonus" /\ scanned.done) =>
        targets = Pairs(SelectSeq(scanned.table.rows, C8_HasButton))

\* Only the 8-character prefix of a row's label is persisted: the row is
\* still a candidate.
C8_Witness ==
    /\ args.call = "bonus" /\ scanned.done
    /\ args.existing_dates = {"RW07Y06M"}
    /\ targets = << <<"RW07Y06M25D", "btnA">> >>

IsDetail(e) == e.kind = "detail"
DetailEntries == SelectSeq(trace, IsDetail)

C10_SequentialInOrder ==
    InFetch =>
        /\ \A i \in 1..Len(trace) : i < Len(trace) => trace[i].ok
        /\ Len(DetailEntries) <= Len(targets)
        /\ \A n \in 1..Len(DetailEntries) :
                /\ DetailEntries[n].label = targets[n][1]
                /\ DetailEntries[n].target = targets[n][2]
        /\ Len(results) <= Len(DetailEntries)
        /\ \A n \in 1..Len(results) : RecordLabel(n) = targets[n][1]
        /\ \A i \in DetailIdx :
                /\ i > 1 /\ trace[i - 1].kind \in {"show", "goback"}
                /\ i < Len(trace) =>
                        /\ trace[i + 1].kind = "goback"
                        /\ trace[i + 1].label = trace[i].label

\* Two different candidates were fetched, one after the other.
C10_Witness ==
    /\ Returned /\ InFetch
    /\ Len(results) = 2 /\ RecordLabel(1) # RecordLabel(2)
    /\ LastEntry.kind = "menu"

\* ---------------------------------------------------------- run_main_logic
\* run_main_logic from `with PayslipHandler(root_dir) as handler:` to the end
\* of the with statement.  caller holds final_target_dates_set, the sorted
\* fiscal-year labels still to be given to fetch_bonus_data, and
\* all_existing_bonus_dates_set.
RunYears == { <<"RW07Y">>, <<"RW06Y", "RW07Y">> }

InitRun ==
    /\ company_code \in {"", "c01"}
    /\ current_form_data = EmptyForm
    /\ current_url = NoUrl
    /\ menu_url = NoUrl
    /\ menu_form_data = EmptyForm
    /\ pc = "idle"
    /\ args = NoArgs
    /\ list_url = NoUrl
    /\ list_form = EmptyForm
    /\ targets = << >>
    /\ idx = 0
    /\ results = << >>
    /\ ret = NoRet
    /\ lastResp = NoResp
    /\ req = NoReq
    /\ trace = << >>
    /\ scanned = NotScanned
    /\ phase = "none"
    /\ prior = NoPrior
    /\ session = "open"
    /\ today = NoDate
    /\ errors = << >>
    /\ \E target_dates \in SalaryTargetSets, years \in RunYears,
          existing \in ExistingSets :
        caller = [prog |-> "run", final_target_dates_set |-> target_dates,
                  years |-> years,
                  all_existing_bonus_dates_set |-> existing]

\* handler.login(login_id, password), the first statement of the block.
RunLogin ==
    /\ caller.prog = "run" /\ session = "open"
    /\ args = NoArgs
    /\ LoginCall

\* The login succeeded: `is_logged_in` is true.
RunLoggedIn == args.call = "login" /\ ret.ok

\* if final_target_dates_set: handler.fetch_salary_data(...)
RunSalary ==
    /\ caller.prog = "run" /\ session = "open"
    /\ RunLoggedIn
    /\ caller.final_target_dates_set # {}
    /\ SalaryCall(caller.final_target_dates_set)

\* for year in sorted(list(target_years_to_run)): handler.fetch_bonus_data
RunBonus ==
    /\ caller.prog = "run" /\ session = "open"
    /\ \/ RunLoggedIn /\ caller.final_target_dates_set = {}
       \/ args.call = "salary"
       \/ args.call = "bonus"
    /\ caller.years # << >>
    /\ BonusCall(Head(caller.years), caller.all_existing_bonus_dates_set)
    /\ caller' = [caller EXCEPT !.years = Tail(@)]
    /\ UNCHANGED prior

\* handler.logout(), after the loop.
RunLogout ==
    /\ caller.prog = "run" /\ session = "open"
    /\ args.call = "bonus"
    /\ caller.years = << >>
    /\ LogoutCall

\* The end of the with statement: __exit__ calls close().  It is reached
\* after logout, or at once when the login failed.
RunExit ==
    /\ caller.prog = "run" /\ session = "open"
    /\ pc = "idle"
    /\ \/ args.call = "logout"
       \/ args.call = "login" /\ ~ret.ok
    /\ session' = "closed"
    /\ UNCHANGED <<company_code, today, handlerVars, pc, frameVars, wireVars,
                   scanned, phase, callerVars, schedVars>>

NextRun ==
    \/ RunLogin
    \/ LoginGet
    \/ LoginPost
    \/ RunSalary
    \/ SalaryShow
    \/ SalaryDetail
    \/ SalaryGoBack
    \/ SalaryBackToMenu
    \/ RunBonus
    \/ BonusShow
    \/ BonusDetail
    \/ BonusGoBack
    \/ BonusBackToMenu
    \/ RunLogout
    \/ LogoutPost
    \/ RunExit

SpecRun == InitRun /\ [][NextRun]_vars

\* C11: in a run whose login succeeded, the logout event is posted once,
\* after the last fetch call and before the session is closed, from the
\* menu page the navigator has returned to and with that page's snapshot.
C11_LogoutOnceFromMenu ==
    /\ req.kind = "logout" =>
            /\ caller.years = << >>
            /\ UrlHas(req.url, MenuPage)
            /\ req.url = menu_url /\ req.form = menu_form_data
            /\ req.from = req.url /\ req.form = ExtractState(req.fresh)
    /\ (session = "closed" /\ menu_url # NoUrl) =>
            /\ args.call = "logout"
            /\ Len(trace) = 1 /\ trace[1].kind = "logout"

\* C12: on a handler whose login never succeeded, logout() sends no request
\* and changes no handler state.  The home URL is empty until a login
\* succeeds (first conjunct), and a logout() that finds it empty returns at
\* once, leaving the handler and the portal as they were (second conjunct).
C12_LogoutWithoutLoginIsNoOp ==
    [][ /\ (menu_url = NoUrl /\ menu_url' # NoUrl) =>
                (pc = "login_post" /\ ret'.ok)
        /\ (pc = "idle" /\ args'.call = "logout" /\ menu_url = NoUrl) =>
                /\ pc' = "idle" /\ trace' = << >> /\ req' = NoReq
                /\ UNCHANGED <<handlerVars, lastResp, session>> ]_vars

\* logout() has returned on a handler whose only login attempt failed after
\* the login page had been fetched.
C12_Witness ==
    /\ args.call = "logout" /\ pc = "idle"
    /\ menu_url = NoUrl /\ current_url # NoUrl
    /\ trace = << >>

\* C13: once logout() has completed the handler holds neither the home URL
\* nor a hidden-field snapshot of the session, and no request sent outside a
\* session (after the logout, before the next login) carries a snapshot.
C13_SessionDroppedAtLogout ==
    /\ (args.call = "logout" /\ pc = "idle") =>
            /\ menu_url = NoUrl /\ menu_form_data = EmptyForm
            /\ current_form_data = EmptyForm
    /\ (req.kind \in {"logout", "show", "detail", "goback", "menu"}
            /\ ~req.live) =>
            req.form = EmptyForm

\* ====================================================== ScheduleHandler
\* The work-schedule site handler and the view that drives it.  Japanese
\* message texts are transliterated to ASCII:
\*   "start h/m uneven" = the start-time hour/minute-unequal message,
\*   "end h/m uneven", "rest h/m uneven", "midnight h/m uneven" likewise,
\*   "start and end go together" = the one-sided time range message,
\*   "rest or midnight alone"    = rest/midnight without a start time,
\*   "no work" = the auto-fill marker, "register" = the submit label.

\* ------------------------------------------------------- Python strings
\* str.strip(): leading and trailing white space removed.
IsSpace(c) == c \in {" ", "\t", "\n"}
RECURSIVE LStrip(_)
LStrip(s) ==
    IF s # "" /\ IsSpace(CharAt(s, 1)) THEN LStrip(SubSeq(s, 2, Len(s)))
    ELSE s
RECURSIVE RStrip(_)
RStrip(s) ==
    IF s # "" /\ IsSpace(CharAt(s, Len(s)))
    THEN RStrip(SubSeq(s, 1, Len(s) - 1))
    ELSE s
Strip(s) == RStrip(LStrip(s))

\* str.split(sep) for a one-character separator: a list of Len + 1 parts.
RECURSIVE Split(_, _)
Split(s, sep) ==
    IF \A i \in 1..Len(s) : CharAt(s, i) # sep THEN <<s>>
    ELSE LET at == CHOOSE i \in 1..Len(s) :
                       /\ CharAt(s, i) = sep
                       /\ \A j \in 1..(i - 1) : CharAt(s, j) # sep
         IN  <<SubSeq(s, 1, at - 1)>> \o Split(SubSeq(s, at + 1, Len(s)), sep)

\* "\n".join(lines)
RECURSIVE JoinLines(_)
JoinLines(lines) ==
    IF lines = << >> THEN ""
    ELSE IF Len(lines) = 1 THEN lines[1]
    ELSE lines[1] \o "\n" \o JoinLines(Tail(lines))

\* str.endswith(suffix)
EndsWith(s, suffix) ==
    /\ Len(s) >= Len(suffix)
    /\ SubSeq(s, Len(s) - Len(suffix) + 1, Len(s)) = suffix

\* int(text): white space around the number is ignored; ValueError unless
\* an optional sign and at least one digit remain.
PyIntOk(s) == IntOk(Strip(s))
PyInt(s) == Signed(Strip(s), NatVal(Unsigned(Strip(s))))

\* str(i) for a row index.
IndexText(i) == IF i < 10 THEN CharAt(DigitChars, i + 1)
                ELSE CharAt(DigitChars, (i \div 10) + 1)
                     \o CharAt(DigitChars, (i % 10) + 1)

\* --------------------------------------------------------- datetime.date
IsLeap(y) == y % 4 = 0 /\ (y % 100 # 0 \/ y % 400 = 0)
DaysInMonth(y, m) ==
    IF m = 2 THEN (IF IsLeap(y) THEN 29 ELSE 28)
    ELSE IF m \in {4, 6, 9, 11} THEN 30 ELSE 31
\* date(y, m, d) does not raise ValueError.
DateOk(y, m, d) ==
    /\ y \in 1..9999 /\ m \in 1..12
    /\ d >= 1 /\ d <= DaysInMonth(y, m)
RECURSIVE DaysBeforeMonth(_, _)
DaysBeforeMonth(y, m) ==
    IF m = 1 THEN 0 ELSE DaysBeforeMonth(y, m - 1) + DaysInMonth(y, m - 1)
\* date.toordinal(): 1 for 0001-01-01.
ToOrdinal(dt) ==
    LET y == dt[1] - 1
    IN  y * 365 + (y \div 4) - (y \div 100) + (y \div 400)
        + DaysBeforeMonth(dt[1], dt[2]) + dt[3]
\* date.weekday(): Monday is 0, Sunday is 6.
Weekday(dt) == (ToOrdinal(dt) + 6) % 7
DateBefore(a, b) == ToOrdinal(a) < ToOrdinal(b)

\* ------------------------------------------------------ _validate_input
\* f"[{date_label}]..." with date_label = row.get("workDate", ...); the
\* rows of the view always carry the key workDate.
ErrorLine(row, text) == "[" \o row.workDate \o "]" \o text

StartUneven == "start h/m uneven"
EndUneven == "end h/m uneven"
RestUneven == "rest h/m uneven"
MidUneven == "midnight h/m uneven"
SetInput == "start and end go together"
RestOnly == "rest or midnight alone"

\* bool(_safe_str(v).strip())
Filled(v) == Strip(v) # ""

When(cond, line) == IF cond THEN <<line>> ELSE << >>

\* Variant: the rest/midnight rule left out.
RowErrorsNoRestRule(row) ==
    LET has_start == Filled(row.start_h) /\ Filled(row.start_m)
        has_end == Filled(row.end_h) /\ Filled(row.end_m)
    IN  When(Filled(row.start_h) # Filled(row.start_m),
             ErrorLine(row, StartUneven))
        \o When(Filled(row.end_h) # Filled(row.end_m),
                ErrorLine(row, EndUneven))
        \o When(Filled(row.rest_h) # Filled(row.rest_m),
                ErrorLine(row, RestUneven))
        \o When(Filled(row.mid_h) # Filled(row.mid_m),
                ErrorLine(row, MidUneven))
        \o When(has_start # has_end, ErrorLine(row, SetInput))

\* Variant: a time counts as entered when its hour or its minute is.
RowErrorsEitherPart(row) ==
    LET has_start == Filled(row.start_h) \/ Filled(row.start_m)
        has_end == Filled(row.end_h) \/ Filled(row.end_m)
    IN  When(Filled(row.start_h) # Filled(row.start_m),
             ErrorLine(row, StartUneven))
        \o When(Filled(row.end_h) # Filled(row.end_m),
                ErrorLine(row, EndUneven))
        \o When(Filled(row.rest_h) # Filled(row.rest_m),
                ErrorLine(row, RestUneven))
        \o When(Filled(row.mid_h) # Filled(row.mid_m),
                ErrorLine(row, MidUneven))
        \o When(has_start # has_end, ErrorLine(row, SetInput))
        \o When((Filled(row.rest_h) \/ Filled(row.mid_h)) /\ ~has_start,
                ErrorLine(row, RestOnly))

\* Variant: the start-time check compares the raw texts, not the stripped.
RowErrorsUnstripped(row) ==
    LET has_start == Filled(row.start_h) /\ Filled(row.start_m)
        has_end == Filled(row.end_h) /\ Filled(row.end_m)
    IN  When((row.start_h # "") # (row.start_m # ""),
             ErrorLine(row, StartUneven))
        \o When(Filled(row.end_h) # Filled(row.end_m),
                ErrorLine(row, EndUneven))
        \o When(Filled(row.rest_h) # Filled(row.rest_m),
                ErrorLine(row, RestUneven))
        \o When(Filled(row.mid_h) # Filled(row.mid_m),
                ErrorLine(row, MidUneven))
        \o When(has_start # has_end, ErrorLine(row, SetInput))
        \o When((Filled(row.rest_h) \/ Filled(row.mid_h)) /\ ~has_start,
                ErrorLine(row, RestOnly))

\* The body of the for loop: the messages one row appends, in order.
RowErrors(row) ==
    LET has_start == Filled(row.start_h) /\ Filled(row.start_m)
        has_end == Filled(row.end_h) /\ Filled(row.end_m)
    IN  When(Filled(row.start_h) # Filled(row.start_m),
             ErrorLine(row, StartUneven))
        \o When(Filled(row.end_h) # Filled(row.end_m),
                ErrorLine(row, EndUneven))
        \o When(Filled(row.rest_h) # Filled(row.rest_m),
                ErrorLine(row, RestUneven))
        \o When(Filled(row.mid_h) # Filled(row.mid_m),
                ErrorLine(row, MidUneven))
        \o When(has_start # has_end, ErrorLine(row, SetInput))
        \o When((Filled(row.rest_h) \/ Filled(row.mid_h)) /\ ~has_start,
                ErrorLine(row, RestOnly))

\* Variant: validation that stops at the first row with a message.
RECURSIVE ValidateInputFailFast(_)
ValidateInputFailFast(data_list) ==
    IF data_list = << >> THEN << >>
    ELSE IF RowErrors(Head(data_list)) # << >>
         THEN <<Head(RowErrors(Head(data_list)))>>
         ELSE ValidateInputFailFast(Tail(data_list))

RECURSIVE ValidateInput(_)
ValidateInput(data_list) ==
    IF data_list = << >> THEN << >>
    ELSE RowErrors(Head(data_list)) \o ValidateInput(Tail(data_list))

ValidationHeader == "input has problems, please fix."
\* The message update_schedule returns for a non-empty list of errors.
ValidationMessage(errs) == ValidationHeader \o "\n\n" \o JoinLines(errs)

\* -------------------------------------------------------- _build_payload
\* A payload is a function from field names to texts.
Put(payload, key, value) ==
    [k \in (DOMAIN payload) \cup {key} |->
        IF k = key THEN value ELSE payload[k]]
Without(payload, keys) == [k \in (DOMAIN payload) \ keys |-> payload[k]]

\* A field of the served form: an <input> (hidden, text, submit, checkbox
\* or radio), a <textarea> with its text as value, or a <select> with its
\* options.  value = Absent when the tag has no value attribute.
Field(tag, type, name, value, checked) ==
    [tag |-> tag, type |-> type, name |-> name, value |-> value,
     checked |-> checked, options |-> << >>]
Option(value, selected) == [value |-> value, selected |-> selected]
Select(name, options) ==
    [tag |-> "select", type |-> "", name |-> name, value |-> Absent,
     checked |-> FALSE, options |-> options]

\* tag.find('option', selected=True)
HasSelected(options) == \E k \in 1..Len(options) : options[k].selected
FirstSelected(options) ==
    options[CHOOSE k \in 1..Len(options) :
                /\ options[k].selected
                /\ \A j \in 1..(k - 1) : ~options[j].selected]
\* The value _build_payload takes for a select: that of the selected
\* option, else that of the first option, else "".
SelectValue(options) ==
    IF HasSelected(options) THEN FirstSelected(options).value
    ELSE IF options # << >> THEN options[1].value
    ELSE ""
FieldValue(tag) ==
    LET val == IF tag.tag = "select" THEN SelectValue(tag.options)
               ELSE tag.value
    IN  IF val = Absent THEN "" ELSE val

\* A field whose value goes into the payload: it has a name, and a check
\* box or radio button is ticked.
Collected(tag) ==
    /\ tag.name # ""
    /\ (tag.tag = "input" /\ tag.type \in {"checkbox", "radio"}) => tag.checked
CollectedValue(tag) ==
    IF tag.tag = "input" /\ tag.type \in {"checkbox", "radio"}
    THEN (IF tag.value = Absent THEN "on" ELSE tag.value)
    ELSE FieldValue(tag)

\* Step 1: the values of all named fields of the form; of two fields with
\* one name the later one stays in the dict.
CollectFields(tags) ==
    LET at(name) ==
            CHOOSE k \in 1..Len(tags) :
                /\ Collected(tags[k]) /\ tags[k].name = name
                /\ \A j \in (k + 1)..Len(tags) :
                        ~(Collected(tags[j]) /\ tags[j].name = name)
    IN  [name \in {tags[k].name : k \in {j \in 1..Len(tags) : Collected(tags[j])}}
            |-> CollectedValue(tags[at(name)])]

KakuteiKeys(payload) == {k \in DOMAIN payload : EndsWith(k, ".kakutei")}

NoWork == "no work"
RegisterLabel == "register"
UnsetType == "99"

\* The date of a row: row.get("workDate") split on "/", three parts as
\* year/month/day, two parts as month/day of the current year.
\* none: w_date stays None; error: int() or date() raised ValueError.
ParseWorkDate(w_date_str, now) ==
    LET ymd == Split(w_date_str, "/")
        Parsed(y, m, d) ==
            IF DateOk(y, m, d)
            THEN [kind |-> "date", date |-> <<y, m, d>>]
            ELSE [kind |-> "error", date |-> NoDate]
    IN  IF w_date_str = "" THEN [kind |-> "none", date |-> NoDate]
        ELSE IF Len(ymd) = 3
        THEN (IF PyIntOk(ymd[1]) /\ PyIntOk(ymd[2]) /\ PyIntOk(ymd[3])
              THEN Parsed(PyInt(ymd[1]), PyInt(ymd[2]), PyInt(ymd[3]))
              ELSE [kind |-> "error", date |-> NoDate])
        ELSE IF Len(ymd) = 2
        THEN (IF PyIntOk(ymd[1]) /\ PyIntOk(ymd[2])
              THEN Parsed(now[1], PyInt(ymd[1]), PyInt(ymd[2]))
              ELSE [kind |-> "error", date |-> NoDate])
        ELSE [kind |-> "none", date |-> NoDate]

\* The try block of the loop: the row as it is after the auto-fill.
AutoFill(row, now) ==
    LET w == ParseWorkDate(row.workDate, now)
        is_empty_input ==
            /\ Strip(row.start_h) = ""
            /\ row.workType = UnsetType
            /\ Strip(row.comment) = ""
        is_weekend == Weekday(w.date) >= 5
        is_shukujitsu == row.shukujitsu = "true"
        is_holiday == is_weekend \/ is_shukujitsu
    IN  IF w.kind = "date" /\ DateBefore(w.date, now) /\ is_holiday
            /\ is_empty_input
        THEN [row EXCEPT !.comment = NoWork]
        ELSE row

RowBase(row) == "workDataDetailList[" \o IndexText(row.index) \o "]"

\* Variant: the midnight components are posted as they are.
OverlayRowKeepsZero(payload, row) ==
    LET base == RowBase(row)
        m_h == row.mid_h
        m_m == row.mid_m
        p0 == IF row.id # "" THEN Put(payload, base \o ".id", row.id)
              ELSE payload
        p1 == Put(p0, base \o ".workStartTimeHour", row.start_h)
        p2 == Put(p1, base \o ".workStartTimeMinute", row.start_m)
        p3 == Put(p2, base \o ".workEndTimeHour", row.end_h)
        p4 == Put(p3, base \o ".workEndTimeMinute", row.end_m)
        p5 == Put(p4, base \o ".restTimeHour", row.rest_h)
        p6 == Put(p5, base \o ".restTimeMinute", row.rest_m)
        p7 == Put(p6, base \o ".midnightTimeHour", m_h)
        p8 == Put(p7, base \o ".midnightTimeMinute", m_m)
        p9 == Put(p8, base \o ".workType", row.workType)
        p10 == Put(p9, base \o ".comment", row.comment)
        has_time == Strip(row.start_h) # ""
        has_cmt == row.comment # ""
        has_type == row.workType # "" /\ row.workType # UnsetType
    IN  IF has_time \/ has_cmt \/ has_type
        THEN Put(p10, base \o ".kakutei", "true")
        ELSE p10

\* Variant: every submitted row is flagged as confirmed.
OverlayRowFlagsAll(payload, row) ==
    LET base == RowBase(row)
        m_h == IF row.mid_h = "00" THEN "" ELSE row.mid_h
        m_m == IF row.mid_m = "00" THEN "" ELSE row.mid_m
        p0 == IF row.id # "" THEN Put(payload, base \o ".id", row.id)
              ELSE payload
        p1 == Put(p0, base \o ".workStartTimeHour", row.start_h)
        p2 == Put(p1, base \o ".workStartTimeMinute", row.start_m)
        p3 == Put(p2, base \o ".workEndTimeHour", row.end_h)
        p4 == Put(p3, base \o ".workEndTimeMinute", row.end_m)
        p5 == Put(p4, base \o ".restTimeHour", row.rest_h)
        p6 == Put(p5, base \o ".restTimeMinute", row.rest_m)
        p7 == Put(p6, base \o ".midnightTimeHour", m_h)
        p8 == Put(p7, base \o ".midnightTimeMinute", m_m)
        p9 == Put(p8, base \o ".workType", row.workType)
        p10 == Put(p9, base \o ".comment", row.comment)
    IN  Put(p10, base \o ".kakutei", "true")

\* The rest of the loop body, on the row after the auto-fill.
OverlayRow(payload, row) ==
    LET base == RowBase(row)
        m_h == IF row.mid_h = "00" THEN "" ELSE row.mid_h
        m_m == IF row.mid_m = "00" THEN "" ELSE row.mid_m
        p0 == IF row.id # "" THEN Put(payload, base \o ".id", row.id)
              ELSE payload
        p1 == Put(p0, base \o ".workStartTimeHour", row.start_h)
        p2 == Put(p1, base \o ".workStartTimeMinute", row.start_m)
        p3 == Put(p2, base \o ".workEndTimeHour", row.end_h)
        p4 == Put(p3, base \o ".workEndTimeMinute", row.end_m)
        p5 == Put(p4, base \o ".restTimeHour", row.rest_h)
        p6 == Put(p5, base \o ".restTimeMinute", row.rest_m)
        p7 == Put(p6, base \o ".midnightTimeHour", m_h)
        p8 == Put(p7, base \o ".midnightTimeMinute", m_m)
        p9 == Put(p8, base \o ".workType", row.workType)
        p10 == Put(p9, base \o ".comment", row.comment)
        has_time == Strip(row.start_h) # ""
        has_cmt == row.comment # ""
        has_type == row.workType # "" /\ row.workType # UnsetType
    IN  IF has_time \/ has_cmt \/ has_type
        THEN Put(p10, base \o ".kakutei", "true")
        ELSE p10

\* Step 2: the rows of the view laid over the form values, in order.
RECURSIVE OverlayRows(_, _, _)
OverlayRows(payload, ui_data, now) ==
    IF ui_data = << >> THEN payload
    ELSE OverlayRows(OverlayRow(payload, AutoFill(Head(ui_data), now)),
                     Tail(ui_data), now)

\* ui_data as _build_payload leaves it: row["comment"] is set in place.
AutoFilled(ui_data, now) == [i \in 1..Len(ui_data) |-> AutoFill(ui_data[i], now)]

\* Variant: only the submitted rows are posted.
BuildPayloadRowsOnly(form, ui_data, now) ==
    Put(OverlayRows(<< >>, ui_data, now), "register", RegisterLabel)

\* Variant: the confirmed flags of the served form are kept.
BuildPayloadKeepsKakutei(form, ui_data, now) ==
    LET collected == CollectFields(form)
    IN  Put(OverlayRows(collected, ui_data, now), "register", RegisterLabel)

BuildPayload(form, ui_data, now) ==
    LET collected == CollectFields(form)
        kept == Without(collected, KakuteiKeys(collected))
    IN  Put(OverlayRows(kept, ui_data, now), "register", RegisterLabel)

\* ------------------------------------------------ the rows of the view
\* Largest number of rows of a submitted table with more than one row.
MaxUiRows == 2

\* WORK_TYPE_MAP_REVERSE.get(name, "99") for the names "kyuujitsu" (day
\* off), "kadou" (work day) and "yuukyuu" (paid leave).
WorkTypeCode(name) ==
    IF name = "yuukyuu" THEN "12"
    ELSE IF name = "hankyuu" THEN "81"
    ELSE IF name = "kekkin" THEN "11"
    ELSE IF name = "chisou" THEN "85"
    ELSE UnsetType

UiRow(index, workDate, shukujitsu, start, end, rest, mid, workType, comment) ==
    [index |-> index, id |-> "id" \o IndexText(index),
     workDate |-> workDate, shukujitsu |-> shukujitsu,
     start_h |-> start[1], start_m |-> start[2],
     end_h |-> end[1], end_m |-> end[2],
     rest_h |-> rest[1], rest_m |-> rest[2],
     mid_h |-> mid[1], mid_m |-> mid[2],
     workType |-> workType, comment |-> comment]

NoTime == <<"", "">>
StartTimes ==
    {NoTime, <<"09", "00">>, <<"09", "">>, <<"09", " ">>, <<"", "30">>,
     <<" ", " ">>}
EndTimes == {NoTime, <<"18", "00">>, <<"18", "">>}
RestTimes == {NoTime, <<"01", "00">>, <<"01", "">>, <<"", "30">>}
MidTimes ==
    {NoTime, <<"00", "00">>, <<"", "15">>, <<"00", "30">>, <<"01", "00">>}

\* date.today() of the runs: Saturday 2026-10-31.
Todays == {<<2026, 10, 31>>}
\* workDate texts of the site: the Sunday and the Monday before, today,
\* the Sunday after, month/day only, dashes for slashes, none, no such day.
RowDates ==
    {"2026/10/25", "2026/10/26", "2026/10/31", "2026/11/01", "10/25",
     "2026-10-25", "", "2026/02/30"}
\* The days of a table with several rows, by position.
ListDates == <<"2026/10/24", "2026/10/25", "2026/10/26", "2026/10/27">>

\* One-row tables that vary the four times of a Monday.
TimedRows ==
    {UiRow(0, "2026/10/26", "false", s, e, r, m, "kadou", "") :
        s \in StartTimes, e \in EndTimes, r \in RestTimes, m \in MidTimes}
\* One-row tables that vary the day, the holiday flag, the work type and
\* the comment of a row whose times pass the validation.
DatedRows ==
    {UiRow(0, d, h, s, IF Strip(s[1]) = "" THEN NoTime ELSE <<"18", "00">>,
           NoTime, NoTime, w, c) :
        d \in RowDates, h \in {"true", "false"},
        s \in {NoTime, <<"09", "00">>, <<" ", " ">>},
        w \in {"kyuujitsu", "yuukyuu"}, c \in {"", " ", "memo"}}
\* The rows of a table with several rows, at position k.
ShortRows(k) ==
    LET d == ListDates[((k - 1) % Len(ListDates)) + 1]
    IN  {UiRow(k - 1, d, "false", NoTime, NoTime, NoTime, NoTime, "kyuujitsu", ""),
         UiRow(k - 1, d, "false", <<"09", "00">>, <<"18", "00">>, <<"01", "00">>,
               NoTime, "kadou", ""),
         UiRow(k - 1, d, "false", <<"09", "">>, <<"18", "">>, NoTime, NoTime,
               "kadou", ""),
         UiRow(k - 1, d, "false", NoTime, NoTime, <<"01", "00">>, NoTime,
               "kadou", ""),
         UiRow(k - 1, d, "false", <<"09", "00">>, NoTime, NoTime, NoTime,
               "kadou", "")}
RECURSIVE ShortTables(_)
ShortTables(n) ==
    IF n = 0 THEN {<< >>}
    ELSE {Append(t, r) : t \in ShortTables(n - 1), r \in ShortRows(n)}

\* table_view.get_data() when handle_submit goes on: a non-empty table.
UiTables ==
    {<<r>> : r \in TimedRows \cup DatedRows}
    \cup UNION {ShortTables(n) : n \in 2..MaxUiRows}

\* ------------------------------------------------------ the schedule site
SiteOrigin == "https://kinmu.example"
SchedLoginUrl == SiteOrigin \o "/auth/login"
SchedWorkUrl == SiteOrigin \o "/work/monthly"
RegisterAction == "/work/register"

\* A document of the site as the handler reads it: the URL it came from;
\* whether it has the register button, the action of the form around the
\* button, the fields of that form (of the whole document without the
\* button) and the fields outside the form; whether its text holds the
\* system-error marker and the input-error marker; its elements that have
\* a class attribute, with their texts; and its red-styled list, if any.
NoList == [found |-> FALSE, items |-> << >>]
NoDoc ==
    [url |-> "", register |-> FALSE, action |-> "", fields |-> << >>,
     outside |-> << >>, system |-> FALSE, input |-> FALSE, elems |-> << >>,
     red |-> NoList]
Elem(class, text) == [class |-> class, text |-> text]
RedList(items) == [found |-> TRUE, items |-> items]

RowName(i, key) == "workDataDetailList[" \o IndexText(i) \o "]." \o key
\* The fields of one day of the served table.
DayFields(i, workDate, options, comment, checked) ==
    <<Field("input", "hidden", RowName(i, "id"), "srv" \o IndexText(i), FALSE),
      Field("input", "hidden", RowName(i, "workDate"), workDate, FALSE),
      Field("input", "text", RowName(i, "workStartTimeHour"), "09", FALSE),
      Select(RowName(i, "workType"), options),
      Field("input", "text", RowName(i, "comment"), comment, FALSE),
      Field("input", "checkbox", RowName(i, "kakutei"), "true", checked)>>

TypeOptions(selected) ==
    <<Option("99", selected = "99"), Option("12", selected = "12")>>

\* Documents the site serves for the work page: the form with its submit
\* button, a token, a month selector, boxes and buttons that are not part
\* of a day, and the days 0, 1 and 5; or a page without the button, where
\* the whole document stands in for the form.
SchedDocs ==
    {[NoDoc EXCEPT
        !.url = SchedWorkUrl, !.register = TRUE, !.action = RegisterAction,
        !.fields =
            <<Field("input", "hidden", "token", "t1", FALSE),
              Select("targetMonth", <<Option("202609", FALSE),
                                      Option("202610", TRUE)>>),
              Select("section", <<Option("s1", FALSE), Option("s2", FALSE)>>),
              Field("textarea", "", "note", "monthly note", FALSE),
              Field("input", "checkbox", "notify", "1", FALSE),
              Field("input", "radio", "mode", "a", FALSE),
              Field("input", "radio", "mode", "b", TRUE),
              Field("input", "text", "", "unnamed", FALSE)>>
            \o DayFields(0, "2026/10/25", TypeOptions("99"), "old", TRUE)
            \o DayFields(1, "2026/10/26", TypeOptions("12"), "", FALSE)
            \o DayFields(5, "2026/10/30", TypeOptions("none"), "far", TRUE)
            \o <<Field("input", "submit", "register", "go", FALSE)>>,
        !.outside = <<Field("input", "hidden", "search", "q", FALSE)>>],
     [NoDoc EXCEPT
        !.url = SchedWorkUrl,
        !.fields =
            <<Field("input", "hidden", "token", Absent, FALSE),
              Field("input", "checkbox", RowName(0, "kakutei"), Absent, TRUE),
              Field("input", "checkbox", RowName(5, "kakutei"), "true", TRUE),
              Field("input", "text", RowName(5, "comment"), "far", FALSE)>>]}

\* Answers to the update POST: accepted; the system-error marker, alone
\* and next to an input error; the input-error marker with error elements
\* (one of them without text), with only a red list, and with neither;
\* error elements without the marker text; an element whose class
\* attribute only contains the word error.
PostDocs ==
    {[NoDoc EXCEPT !.url = SchedWorkUrl],
     [NoDoc EXCEPT !.system = TRUE],
     [NoDoc EXCEPT !.system = TRUE, !.input = TRUE,
                   !.elems = <<Elem("error", "A"), Elem("error", "B")>>],
     [NoDoc EXCEPT !.input = TRUE,
                   !.elems = <<Elem("error", "A"), Elem("note", "N"),
                               Elem("error big", " "), Elem("error", " B ")>>,
                   !.red = RedList(<<"R1">>)],
     [NoDoc EXCEPT !.input = TRUE, !.elems = <<Elem("error", "")>>,
                   !.red = RedList(<<"R1", "", "R2">>)],
     [NoDoc EXCEPT !.input = TRUE],
     [NoDoc EXCEPT !.elems = <<Elem("error", "A"), Elem("error", "B")>>],
     [NoDoc EXCEPT !.elems = <<Elem("error big", "A")>>]}

\* Pages get_current_data reads after the update: days 0 and 2 in the
\* form, day 2 with two id fields, and slot 32 filled; days 1 and 31 on a
\* page without the button; a form without days beside a stray id field;
\* an empty page.
LatestDocs ==
    {[NoDoc EXCEPT
        !.url = SchedWorkUrl, !.register = TRUE, !.action = RegisterAction,
        !.fields =
            DayFields(2, "2026/10/27", TypeOptions("12"), "", TRUE)
            \o DayFields(0, "2026/10/25", TypeOptions("none"), "c0", FALSE)
            \o <<Field("input", "hidden", RowName(2, "id"), "dup", FALSE)>>
            \o DayFields(32, "2026/11/26", TypeOptions("99"), "", FALSE)
            \o <<Field("input", "submit", "register", "go", FALSE)>>,
        !.outside = DayFields(7, "2026/11/01", TypeOptions("99"), "", FALSE)],
     [NoDoc EXCEPT
        !.url = SchedWorkUrl,
        !.fields =
            DayFields(31, "2026/11/25", TypeOptions("99"), "", FALSE)
            \o DayFields(1, "2026/10/26", TypeOptions("12"), "c1", TRUE)],
     [NoDoc EXCEPT
        !.url = SchedWorkUrl, !.register = TRUE,
        !.fields = <<Field("input", "submit", "register", "go", FALSE)>>,
        !.outside = DayFields(0, "2026/10/25", TypeOptions("99"), "", FALSE)],
     [NoDoc EXCEPT !.url = SchedWorkUrl]}

SchedRequest(kind, url, form) == [kind |-> kind, url |-> url, form |-> form]
SchedRet(ok, msg, rows) == [ok |-> ok, msg |-> msg, rows |-> rows]

\* ------------------------------------------------- _parse_schedule_rows
\* The part of the document the fields are looked up in: the form around
\* the register button, or the whole document without the button.
TargetArea(doc) ==
    IF doc.register THEN doc.fields ELSE doc.fields \o doc.outside

\* target_area.find(tag, {"name": name}): the position of the first such
\* tag, 0 when there is none.
Find(tags, tag, name) ==
    IF \E k \in 1..Len(tags) : tags[k].tag = tag /\ tags[k].name = name
    THEN CHOOSE k \in 1..Len(tags) :
            /\ tags[k].tag = tag /\ tags[k].name = name
            /\ \A j \in 1..(k - 1) : ~(tags[j].tag = tag /\ tags[j].name = name)
    ELSE 0

\* inp.get("value", "") if inp else ""
InputValue(tags, name) ==
    LET k == Find(tags, "input", name)
    IN  IF k = 0 \/ tags[k].value = Absent THEN "" ELSE tags[k].value

\* The selected option's value of the day's work-type select, "99"
\* without the select or without a selected option.
ParsedType(tags, name) ==
    LET k == Find(tags, "select", name)
    IN  IF k = 0 \/ ~HasSelected(tags[k].options) THEN UnsetType
        ELSE FirstSelected(tags[k].options).value

SlotCount == 32

\* The row of slot i.  Of the read-only keys workDate, youbi and
\* shukujitsu are kept; the other seven are read in the same way.
ParseRow(tags, i) ==
    LET kakutei == Find(tags, "input", RowName(i, "kakutei"))
    IN  [index |-> i,
         id |-> InputValue(tags, RowName(i, "id")),
         workDate |-> InputValue(tags, RowName(i, "workDate")),
         youbi |-> InputValue(tags, RowName(i, "youbi")),
         shukujitsu |-> InputValue(tags, RowName(i, "shukujitsu")),
         start_h |-> InputValue(tags, RowName(i, "workStartTimeHour")),
         start_m |-> InputValue(tags, RowName(i, "workStartTimeMinute")),
         end_h |-> InputValue(tags, RowName(i, "workEndTimeHour")),
         end_m |-> InputValue(tags, RowName(i, "workEndTimeMinute")),
         rest_h |-> InputValue(tags, RowName(i, "restTimeHour")),
         rest_m |-> InputValue(tags, RowName(i, "restTimeMinute")),
         mid_h |-> InputValue(tags, RowName(i, "midnightTimeHour")),
         mid_m |-> InputValue(tags, RowName(i, "midnightTimeMinute")),
         workType |-> ParsedType(tags, RowName(i, "workType")),
         comment |-> InputValue(tags, RowName(i, "comment")),
         is_kakutei |-> (kakutei # 0 /\ tags[kakutei].checked),
         shukujitsu_bool |->
            (InputValue(tags, RowName(i, "shukujitsu")) = "true")]

\* Variant: the scan ends at the first slot without an id field.
RECURSIVE ScanSlotsToGap(_, _)
ScanSlotsToGap(tags, i) ==
    IF i >= SlotCount \/ Find(tags, "input", RowName(i, "id")) = 0 THEN << >>
    ELSE <<ParseRow(tags, i)>> \o ScanSlotsToGap(tags, i + 1)

\* for i in range(32): slots without an id field are passed over.
RECURSIVE ScanSlots(_, _)
ScanSlots(tags, i) ==
    IF i >= SlotCount THEN << >>
    ELSE (IF Find(tags, "input", RowName(i, "id")) = 0 THEN << >>
          ELSE <<ParseRow(tags, i)>>)
         \o ScanSlots(tags, i + 1)

ParseScheduleRows(doc) == ScanSlots(TargetArea(doc), 0)

\* ------------------------------------------------ _extract_error_message
\* find_all(class_="error"): the class attribute holds the word error.
HasClass(elem, word) ==
    \E k \in 1..Len(Split(elem.class, " ")) : Split(elem.class, " ")[k] = word
IsErrorElem(elem) == HasClass(elem, "error")
HasText(elem) == Strip(elem.text) # ""
\* Variant: elements without text are kept.
RECURSIVE ErrorTextsWithEmpty(_)
ErrorTextsWithEmpty(elems) ==
    IF elems = << >> THEN << >>
    ELSE (IF IsErrorElem(Head(elems))
          THEN <<Strip(Head(elems).text)>> ELSE << >>)
         \o ErrorTextsWithEmpty(Tail(elems))

RECURSIVE ErrorTexts(_)
ErrorTexts(elems) ==
    IF elems = << >> THEN << >>
    ELSE (IF IsErrorElem(Head(elems)) /\ HasText(Head(elems))
          THEN <<Strip(Head(elems).text)>> ELSE << >>)
         \o ErrorTexts(Tail(elems))
StripAll(items) == [k \in 1..Len(items) |-> Strip(items[k])]

\* " / ".join(parts)
RECURSIVE JoinSlash(_)
JoinSlash(parts) ==
    IF parts = << >> THEN ""
    ELSE IF Len(parts) = 1 THEN parts[1]
    ELSE parts[1] \o " / " \o JoinSlash(Tail(parts))

UnknownDetail == "(no detail)"
ExtractErrorMessage(doc) ==
    LET found == ErrorTexts(doc.elems)
        err_msgs == IF found # << >> THEN found
                    ELSE IF doc.red.found THEN StripAll(doc.red.items)
                    ELSE << >>
    IN  IF err_msgs # << >> THEN JoinSlash(err_msgs) ELSE UnknownDetail

\* "System Error" in text or its Japanese form; the Japanese input-error
\* text in the document, or the literal class="error" of an element.
HasSystemMarker(doc) == doc.system
HasInputMarker(doc) ==
    doc.input \/ \E k \in 1..Len(doc.elems) : doc.elems[k].class = "error"

SystemErrorMessage == "system error occurred."
InputErrorPrefix == "input error: "
UpdateErrorMessage == "update error"
RegisteredMessage == "registered."
NotReadSuffix == "\n(but the latest data could not be read)"

\* ------------------------------------------------- handle_submit, by step
NoSession == "none"

InitSubmit ==
    /\ company_code = ""
    /\ current_form_data = EmptyForm
    /\ current_url = ""
    /\ menu_url = NoUrl
    /\ menu_form_data = EmptyForm
    /\ pc = "idle"
    /\ args = NoArgs
    /\ list_url = NoUrl
    /\ list_form = EmptyForm
    /\ targets = << >>
    /\ idx = 0
    /\ results = << >>
    /\ ret = NoRet
    /\ lastResp = NoDoc
    /\ req = NoReq
    /\ trace = << >>
    /\ scanned = NotScanned
    /\ phase = "none"
    /\ prior = NoPrior
    /\ session = NoSession
    /\ today \in Todays
    /\ errors = << >>
    /\ \E table \in UiTables, env_ok \in BOOLEAN :
        caller = [prog |-> "submit", env_ok |-> env_ok, table |-> table,
                  sub_data |-> << >>, exit |-> "none", caught |-> FALSE]

submitFixed ==
    <<company_code, today, current_form_data, menu_url, menu_form_data,
      targets, idx, results, scanned, phase, prior>>

\* sub_data with the work-type codes, then `with ScheduleHandler(...)`:
\* the constructor opens the session and raises ValueError when the site
\* settings are missing, which the outer except catches.
SubmitEnter ==
    /\ caller.prog = "submit" /\ pc = "idle" /\ session = NoSession
    /\ session' = "open"
    /\ IF caller.env_ok
       THEN /\ pc' = "sched_login"
            /\ caller' =
                [caller EXCEPT !.sub_data =
                    [i \in 1..Len(caller.table) |->
                        [caller.table[i] EXCEPT
                            !.workType = WorkTypeCode(@)]]]
       ELSE /\ pc' = "sched_done"
            /\ caller' = [caller EXCEPT !.exit = "constructor",
                                        !.caught = TRUE]
    /\ UNCHANGED <<submitFixed, list_url, list_form, current_url, args, ret,
                   wireVars, errors>>

\* Variant: login takes over the answer's URL before it looks at it.
SchedLoginKeepsAuthUrl ==
    /\ pc = "sched_login"
    /\ args' = [call |-> "login"]
    /\ LET r == SchedRequest("login", SchedLoginUrl, << >>)
       IN  /\ req' = r
           /\ trace' = <<r>>
    /\ \/ /\ ret' = SchedRet(FALSE, "login error", << >>)
          /\ UNCHANGED <<current_url, lastResp>>
       \/ \E url \in {SchedLoginUrl, SchedWorkUrl} :
            /\ lastResp' = [NoDoc EXCEPT !.url = url]
            /\ current_url' = url
            /\ IF Contains(url, "/auth/")
               THEN ret' = SchedRet(FALSE, "login failed", << >>)
               ELSE ret' = SchedRet(TRUE, "login ok", << >>)
    /\ IF ret'.ok
       THEN pc' = "sched_update" /\ UNCHANGED caller
       ELSE pc' = "sched_exit" /\ caller' = [caller EXCEPT !.exit = "return"]
    /\ UNCHANGED <<submitFixed, list_url, list_form, session, errors>>

\* handler.login(...): one POST.  The request fails or is answered with an
\* error status, or the site answers from its /auth/ pages, or from the
\* work page.  A failed login returns from handle_submit inside the block.
SchedLogin ==
    /\ pc = "sched_login"
    /\ args' = [call |-> "login"]
    /\ LET r == SchedRequest("login", SchedLoginUrl, << >>)
       IN  /\ req' = r
           /\ trace' = <<r>>
    /\ \/ /\ ret' = SchedRet(FALSE, "login error", << >>)
          /\ UNCHANGED <<current_url, lastResp>>
       \/ \E url \in {SchedLoginUrl, SchedWorkUrl} :
            /\ lastResp' = [NoDoc EXCEPT !.url = url]
            /\ IF Contains(url, "/auth/")
               THEN /\ ret' = SchedRet(FALSE, "login failed", << >>)
                    /\ UNCHANGED current_url
               ELSE /\ ret' = SchedRet(TRUE, "login ok", << >>)
                    /\ current_url' = url
    /\ IF ret'.ok
       THEN pc' = "sched_update" /\ UNCHANGED caller
       ELSE pc' = "sched_exit" /\ caller' = [caller EXCEPT !.exit = "return"]
    /\ UNCHANGED <<submitFixed, list_url, list_form, session, errors>>

\* update_schedule up to the try block: ORIGIN is set (the constructor
\* returned), the rows are validated, and a non-empty list of errors is
\* returned as one message.
UpdateValidate ==
    /\ pc = "sched_update"
    /\ args' = [call |-> "update_schedule", ui_data_list |-> caller.sub_data]
    /\ trace' = << >>
    /\ req' = NoReq
    /\ errors' = ValidateInput(caller.sub_data)
    /\ IF errors' # << >>
       THEN /\ ret' = SchedRet(FALSE, ValidationMessage(errors'), << >>)
            /\ pc' = "sched_ui"
       ELSE /\ ret' = NoRet
            /\ pc' = "sched_get"
    /\ UNCHANGED <<submitFixed, list_url, list_form, session, current_url,
                   lastResp, caller>>

PostUrl(doc) ==
    IF doc.register /\ doc.action # "" THEN SiteOrigin \o doc.action
    ELSE current_url

\* session.get(current_url): the request fails, or a document arrives, in
\* which the form and the address of the POST are found.
UpdateGet ==
    /\ pc = "sched_get"
    /\ LET r == SchedRequest("get", current_url, << >>)
       IN  /\ req' = r
           /\ trace' = Append(trace, r)
    /\ \/ /\ ret' = SchedRet(FALSE, UpdateErrorMessage, << >>)
          /\ pc' = "sched_ui"
          /\ UNCHANGED <<lastResp, list_url, list_form>>
       \/ \E doc \in SchedDocs :
            /\ lastResp' = doc
            /\ list_form' = TargetArea(doc)
            /\ list_url' = PostUrl(doc)
            /\ pc' = "sched_post"
            /\ UNCHANGED ret
    /\ UNCHANGED <<submitFixed, session, current_url, args, caller, errors>>

\* Variant: the input-error marker is looked for before the system-error
\* marker.
UpdatePostInputFirst ==
    /\ pc = "sched_post"
    /\ LET r == SchedRequest("register", list_url,
                        BuildPayload(list_form, args.ui_data_list, today))
       IN  /\ req' = r
           /\ trace' = Append(trace, r)
    /\ args' = [args EXCEPT !.ui_data_list = AutoFilled(@, today)]
    /\ caller' = [caller EXCEPT !.sub_data = AutoFilled(@, today)]
    /\ \/ /\ ret' = SchedRet(FALSE, UpdateErrorMessage, << >>)
          /\ pc' = "sched_ui"
          /\ UNCHANGED lastResp
       \/ \E doc \in PostDocs :
            /\ lastResp' = doc
            /\ IF HasInputMarker(doc)
               THEN /\ ret' = SchedRet(FALSE,
                            InputErrorPrefix \o ExtractErrorMessage(doc), << >>)
                    /\ pc' = "sched_ui"
               ELSE IF HasSystemMarker(doc)
               THEN /\ ret' = SchedRet(FALSE, SystemErrorMessage, << >>)
                    /\ pc' = "sched_ui"
               ELSE /\ ret' = NoRet
                    /\ pc' = "sched_refetch"
    /\ UNCHANGED <<submitFixed, list_url, list_form, session, current_url,
                   errors>>

\* _build_payload on the form found, then session.post(post_url, payload):
\* the request fails or is answered with an error status, or the answer
\* holds the system-error marker, or an input-error marker, or neither.
UpdatePost ==
    /\ pc = "sched_post"
    /\ LET r == SchedRequest("register", list_url,
                        BuildPayload(list_form, args.ui_data_list, today))
       IN  /\ req' = r
           /\ trace' = Append(trace, r)
    /\ args' = [args EXCEPT !.ui_data_list = AutoFilled(@, today)]
    /\ caller' = [caller EXCEPT !.sub_data = AutoFilled(@, today)]
    /\ \/ /\ ret' = SchedRet(FALSE, UpdateErrorMessage, << >>)
          /\ pc' = "sched_ui"
          /\ UNCHANGED lastResp
       \/ \E doc \in PostDocs :
            /\ lastResp' = doc
            /\ IF HasSystemMarker(doc)
               THEN /\ ret' = SchedRet(FALSE, SystemErrorMessage, << >>)
                    /\ pc' = "sched_ui"
               ELSE IF HasInputMarker(doc)
               THEN /\ ret' = SchedRet(FALSE,
                            InputErrorPrefix \o ExtractErrorMessage(doc), << >>)
                    /\ pc' = "sched_ui"
               ELSE /\ ret' = NoRet
                    /\ pc' = "sched_refetch"
    /\ UNCHANGED <<submitFixed, list_url, list_form, session, current_url,
                   errors>>

\* Variant: a failed re-fetch makes the update a failure.
UpdateRefetchStrict ==
    /\ pc = "sched_refetch"
    /\ LET r == SchedRequest("get", current_url, << >>)
       IN  /\ req' = r
           /\ trace' = Append(trace, r)
    /\ \/ /\ ret' = SchedRet(FALSE, UpdateErrorMessage, << >>)
          /\ UNCHANGED lastResp
       \/ \E doc \in LatestDocs :
            /\ lastResp' = doc
            /\ ret' = SchedRet(TRUE, RegisteredMessage, ParseScheduleRows(doc))
    /\ pc' = "sched_ui"
    /\ UNCHANGED <<submitFixed, list_url, list_form, session, current_url,
                   args, caller, errors>>

\* get_current_data() at the end of update_schedule: one GET, whose answer
\* is parsed whatever its status.  The update counts as done whether or
\* not the page could be read again.
UpdateRefetch ==
    /\ pc = "sched_refetch"
    /\ LET r == SchedRequest("get", current_url, << >>)
       IN  /\ req' = r
           /\ trace' = Append(trace, r)
    /\ \/ /\ ret' = SchedRet(TRUE, RegisteredMessage \o NotReadSuffix, << >>)
          /\ UNCHANGED lastResp
       \/ \E doc \in LatestDocs :
            /\ lastResp' = doc
            /\ ret' = SchedRet(TRUE, RegisteredMessage, ParseScheduleRows(doc))
    /\ pc' = "sched_ui"
    /\ UNCHANGED <<submitFixed, list_url, list_form, session, current_url,
                   args, caller, errors>>

\* The rest of the block: dialog, table refresh or failure message.  The
\* UI calls complete, or one of them raises.
SubmitUi ==
    /\ pc = "sched_ui"
    /\ \E outcome \in {"normal", "raise"} :
        caller' = [caller EXCEPT !.exit = outcome]
    /\ pc' = "sched_exit"
    /\ UNCHANGED <<submitFixed, list_url, list_form, session, current_url,
                   args, ret, wireVars, errors>>

\* Variant: __exit__ that closes the session only when no exception left
\* the block.
HandlerExitOnSuccess ==
    /\ pc = "sched_exit"
    /\ session' = IF caller.exit = "raise" THEN session ELSE "closed"
    /\ caller' = [caller EXCEPT !.caught = (caller.exit = "raise")]
    /\ pc' = "sched_done"
    /\ UNCHANGED <<submitFixed, list_url, list_form, current_url, args, ret,
                   wireVars, errors>>

\* __exit__: close() closes the session; the return value None lets an
\* exception of the block go on to the except clause of handle_submit.
HandlerExit ==
    /\ pc = "sched_exit"
    /\ session' = "closed"
    /\ caller' = [caller EXCEPT !.caught = (caller.exit = "raise")]
    /\ pc' = "sched_done"
    /\ UNCHANGED <<submitFixed, list_url, list_form, current_url, args, ret,
                   wireVars, errors>>

NextSubmit ==
    \/ SubmitEnter
    \/ SchedLogin
    \/ UpdateValidate
    \/ UpdateGet
    \/ UpdatePost
    \/ UpdateRefetch
    \/ SubmitUi
    \/ HandlerExit

SpecSubmit == InitSubmit /\ [][NextSubmit]_vars

\* ------------------------------------------------- claims on the schedule
InBlock ==
    pc \in {"sched_login", "sched_update", "sched_get", "sched_post",
            "sched_refetch", "sched_ui", "sched_exit"}
LeftBlock ==
    pc = "sched_done" /\ caller.exit \in {"normal", "return", "raise"}

\* C14: the session of a handler used in a with block is open inside the
\* block and closed once the block is left, whether it ran to its end,
\* returned early after a failed login or raised; an exception of the
\* block is not swallowed but reaches the except clause around it.
C14_SessionClosedOnEveryExit ==
    /\ InBlock => session = "open"
    /\ LeftBlock => session = "closed"
    /\ LeftBlock => (caller.caught <=> caller.exit = "raise")
    /\ (pc = "sched_done" /\ caller.exit = "return") =>
            (args.call = "login" /\ ~ret.ok)

\* The block was left by an exception after a completed update.
C14_Witness ==
    /\ LeftBlock /\ caller.exit = "raise" /\ caller.caught
    /\ args.call = "update_schedule" /\ ret.ok
    /\ session = "closed"

\* The rows update_schedule was called with, and the lines of one row.
Validated == args.call = "update_schedule"
UiRows == 1..Len(args.ui_data_list)
CountOf(lines, wanted) ==
    Cardinality({k \in 1..Len(lines) : lines[k] \in wanted})
LinesOf(row, texts) == {ErrorLine(row, text) : text \in texts}
UnevenTexts == {StartUneven, EndUneven, RestUneven, MidUneven}
AllTexts == UnevenTexts \cup {SetInput, RestOnly}
Entered(h, m) == Strip(h) # "" /\ Strip(m) # ""

\* C15: when some submitted row breaks a validation rule, update_schedule
\* sends no request and returns failure, an empty row list and one message
\* made of the header and, line by line, every violation of every row.
C15_Violating == {i \in UiRows : RowErrors(args.ui_data_list[i]) # << >>}
C15_NoRequestAndAllViolations ==
    (Validated /\ C15_Violating # {}) =>
        /\ pc \in {"sched_ui", "sched_exit", "sched_done"}
        /\ trace = << >> /\ req = NoReq
        /\ ~ret.ok /\ ret.rows = << >>
        /\ Split(ret.msg, "\n") = <<ValidationHeader, "">> \o errors
        /\ \A i \in C15_Violating :
            LET mine == RowErrors(args.ui_data_list[i])
            IN  \A k \in 1..Len(mine) :
                    /\ Contains(ret.msg, mine[k])
                    /\ CountOf(errors, {mine[k]}) = 1

\* Two rows, both in violation, three lines in all.
C15_Witness ==
    /\ Validated /\ pc = "sched_done"
    /\ Len(args.ui_data_list) = 2 /\ Cardinality(C15_Violating) = 2
    /\ Len(errors) = 3
    /\ trace = << >> /\ ~ret.ok

\* C16: a row with the start hour filled and the start minute blank gets
\* exactly one hour/minute-uneven message, a row with both blank none.
C16_ExactlyOneUnevenMessage ==
    Validated =>
        \A i \in UiRows :
            LET row == args.ui_data_list[i]
                uneven == CountOf(errors, LinesOf(row, UnevenTexts))
            IN  /\ (Filled(row.start_h) /\ ~Filled(row.start_m)) => uneven = 1
                /\ (~Filled(row.start_h) /\ ~Filled(row.start_m)) => uneven = 0

\* C16 as amended: ... exactly one uneven message about the start time,
\* and none about the start time when both are blank.
C16_ExactlyOneStartUnevenMessage ==
    Validated =>
        \A i \in UiRows :
            LET row == args.ui_data_list[i]
                uneven == CountOf(errors, LinesOf(row, {StartUneven}))
            IN  /\ (Filled(row.start_h) /\ ~Filled(row.start_m)) => uneven = 1
                /\ (~Filled(row.start_h) /\ ~Filled(row.start_m)) => uneven = 0

\* Start hour alone and end hour alone: one message for each time.
C16_Witness ==
    /\ Validated /\ Len(args.ui_data_list) = 1
    /\ args.ui_data_list[1].start_h = "09" /\ args.ui_data_list[1].start_m = " "
    /\ args.ui_data_list[1].end_h = "18" /\ args.ui_data_list[1].end_m = ""
    /\ CountOf(errors, LinesOf(args.ui_data_list[1], {StartUneven})) = 1
    /\ CountOf(errors, LinesOf(args.ui_data_list[1], UnevenTexts)) = 2

\* C17: a row gets the one-sided time range message exactly when one of
\* its start time and end time is entered (hour and minute both filled)
\* and the other is not.
C17_OneSidedIffPresenceDiffers ==
    Validated =>
        \A i \in UiRows :
            LET row == args.ui_data_list[i]
                has_start == Entered(row.start_h, row.start_m)
                has_end == Entered(row.end_h, row.end_m)
            IN  CountOf(errors, LinesOf(row, {SetInput}))
                    = IF has_start # has_end THEN 1 ELSE 0

\* A start time without an end time.
C17_Witness ==
    /\ Validated /\ Len(args.ui_data_list) = 1
    /\ args.ui_data_list[1].start_h = "09" /\ args.ui_data_list[1].start_m = "00"
    /\ args.ui_data_list[1].end_h = "" /\ args.ui_data_list[1].end_m = ""
    /\ errors = <<ErrorLine(args.ui_data_list[1], SetInput)>>

\* C18: a row with a rest or midnight hour or minute but without a start
\* time gets an error, and update_schedule posts nothing for its table.
C18_Supplied(row) ==
    \/ Filled(row.rest_h) \/ Filled(row.rest_m)
    \/ Filled(row.mid_h) \/ Filled(row.mid_m)
C18_RestWithoutStartIsRejected ==
    Validated =>
        \A i \in UiRows :
            LET row == args.ui_data_list[i]
            IN  (C18_Supplied(row) /\ ~Entered(row.start_h, row.start_m)) =>
                    /\ CountOf(errors, LinesOf(row, AllTexts)) >= 1
                    /\ ~ret.ok /\ ret.rows = << >>
                    /\ trace = << >>
                    /\ pc \in {"sched_ui", "sched_exit", "sched_done"}

\* A rest time, evenly filled, on a row without any other time.
C18_Witness ==
    /\ Validated /\ Len(args.ui_data_list) = 1
    /\ args.ui_data_list[1].rest_h = "01" /\ args.ui_data_list[1].rest_m = "00"
    /\ args.ui_data_list[1].start_h = "" /\ args.ui_data_list[1].start_m = ""
    /\ errors = <<ErrorLine(args.ui_data_list[1], RestOnly)>>
    /\ pc = "sched_done" /\ trace = << >>

\* str.replace("-", "/"), the way the views read workDate.
RECURSIVE C19_Slashed(_)
C19_Slashed(s) ==
    IF s = "" THEN ""
    ELSE (IF CharAt(s, 1) = "-" THEN "/" ELSE CharAt(s, 1))
         \o C19_Slashed(SubSeq(s, 2, Len(s)))
C19_Eligible(row) ==
    LET day == ParseWorkDate(C19_Slashed(row.workDate), today)
    IN  /\ day.kind = "date" /\ DateBefore(day.date, today)
        /\ (Weekday(day.date) >= 5 \/ row.shukujitsu = "true")
        /\ Strip(row.start_h) = "" /\ Strip(row.start_m) = ""
        /\ Strip(row.comment) = ""
        /\ WorkTypeCode(row.workType) = UnsetType

\* C19: the comment posted for a row is the marker when the row lies
\* before today, is a weekend day or a flagged holiday and has no start
\* time, no comment and the default work type; otherwise it is the
\* comment of the row as entered.
C19_MarkerIffPastEmptyHoliday ==
    req.kind = "register" =>
        \A i \in 1..Len(caller.table) :
            LET row == caller.table[i]
            IN  req.form[RowBase(row) \o ".comment"]
                    = IF C19_Eligible(row) THEN NoWork ELSE row.comment

\* C20: the payload holds the confirmed flag "true" of a row exactly when
\* the row has a start time, or a comment once auto-filled, or a work
\* type other than "99"; otherwise it holds no confirmed flag of the row.
C20_FlagIffEntered ==
    req.kind = "register" =>
        \A i \in 1..Len(caller.table) :
            LET row == caller.table[i]
                sent == args.ui_data_list[i]
                key == RowBase(row) \o ".kakutei"
            IN  /\ req.form[RowBase(row) \o ".comment"] = sent.comment
                /\ IF \/ Entered(row.start_h, row.start_m)
                      \/ sent.comment # ""
                      \/ WorkTypeCode(row.workType) # UnsetType
                   THEN key \in DOMAIN req.form /\ req.form[key] = "true"
                   ELSE key \notin DOMAIN req.form

\* An empty row of next Sunday, its box ticked in the served form: the
\* payload has no flag for it.
C20_Witness ==
    /\ req.kind = "register" /\ list_url = SiteOrigin \o RegisterAction
    /\ Len(caller.table) = 1
    /\ caller.table[1].workDate = "2026/11/01"
    /\ caller.table[1].start_h = "" /\ caller.table[1].comment = ""
    /\ caller.table[1].workType = "kyuujitsu"
    /\ "workDataDetailList[0].kakutei" \notin DOMAIN req.form
    /\ req.form["register"] = RegisterLabel

\* The fields _build_payload lays over the form for the submitted rows.
OverlaidKeys ==
    {"id", "workStartTimeHour", "workStartTimeMinute", "workEndTimeHour",
     "workEndTimeMinute", "restTimeHour", "restTimeMinute",
     "midnightTimeHour", "midnightTimeMinute", "workType", "comment"}
C21_Unrelated(field) ==
    /\ field.name # "" /\ field.name # "register"
    /\ ~EndsWith(field.name, ".kakutei")
    /\ \A i \in UiRows : \A key \in OverlaidKeys :
            field.name # RowName(args.ui_data_list[i].index, key)
C21_Unticked(field) ==
    field.tag = "input" /\ field.type \in {"checkbox", "radio"}
        /\ ~field.checked
C21_ValueInForm(field) ==
    IF field.tag = "input" /\ field.type \in {"checkbox", "radio"}
        /\ field.value = Absent
    THEN "on" ELSE FieldValue(field)
C21_Posted(field) ==
    /\ field.name \in DOMAIN req.form
    /\ req.form[field.name] = C21_ValueInForm(field)

C22_Blanked(text) == IF text = "00" THEN "" ELSE text
C22_MidnightZeroBlanked ==
    req.kind = "register" =>
        \A i \in 1..Len(caller.table) :
            LET row == caller.table[i]
            IN  /\ req.form[RowName(row.index, "midnightTimeHour")]
                        = C22_Blanked(row.mid_h)
                /\ req.form[RowName(row.index, "midnightTimeMinute")]
                        = C22_Blanked(row.mid_m)

\* Midnight 00:30 is posted as hour "" and minute "30".
C22_Witness ==
    /\ req.kind = "register" /\ Len(caller.table) = 1
    /\ caller.table[1].mid_h = "00" /\ caller.table[1].mid_m = "30"
    /\ req.form[RowName(0, "midnightTimeHour")] = ""
    /\ req.form[RowName(0, "midnightTimeMinute")] = "30"

\* The update POST was answered with the document lastResp.
PostAnswered ==
    /\ Validated /\ req.kind = "register"
    /\ pc \in {"sched_ui", "sched_exit", "sched_done"}
    /\ ret.msg # UpdateErrorMessage
C23_ErrorElems == SelectSeq(lastResp.elems, IsErrorElem)
C23_Texts(elems) == [k \in 1..Len(elems) |-> elems[k].text]

C23_NonEmpty(elem) == IsErrorElem(elem) /\ Strip(elem.text) # ""
C24_Registers == {k \in 1..Len(trace) : trace[k].kind = "register"}
C24_SystemErrorIsFinal ==
    (PostAnswered /\ HasSystemMarker(lastResp)) =>
        /\ ~ret.ok /\ ret.msg = SystemErrorMessage /\ ret.rows = << >>
        /\ Len(trace) = 2 /\ trace[2] = req
        /\ Cardinality(C24_Registers) = 1

\* Both markers in one answer.
C24_Witness ==
    /\ PostAnswered /\ lastResp.system /\ HasInputMarker(lastResp)
    /\ ret.msg = SystemErrorMessage /\ Len(trace) = 2
    /\ pc = "sched_done"

\* C25: after an accepted update POST the page is read once more; the
\* update returns success with the rows parsed from that page, or with no
\* rows when reading it failed.
Refetched ==
    /\ Validated /\ Len(trace) = 3
    /\ pc \in {"sched_ui", "sched_exit", "sched_done"}
C25_RefetchAfterAcceptedPost ==
    /\ pc = "sched_refetch" =>
            /\ req.kind = "register" /\ Len(trace) = 2
            /\ ~HasSystemMarker(lastResp) /\ ~HasInputMarker(lastResp)
    /\ (Validated /\ ret.ok) => Refetched
    /\ Refetched =>
            /\ trace[2].kind = "register"
            /\ req = SchedRequest("get", current_url, << >>) /\ trace[3] = req
            /\ ret.ok
            /\ \/ ret.msg = RegisteredMessage
                    /\ ret.rows = ParseScheduleRows(lastResp)
               \/ ret.msg = RegisteredMessage \o NotReadSuffix
                    /\ ret.rows = << >>

\* The re-fetch failed: success without rows.
C25_Witness ==
    /\ Refetched /\ ret.ok /\ ret.rows = << >>
    /\ ret.msg = RegisteredMessage \o NotReadSuffix
    /\ lastResp \in PostDocs

\* C26: login fails when the request fails or the answer's URL contains
\* "/auth/", and then current_url is as it was; it succeeds otherwise,
\* with current_url set to the answer's URL.  It returns in every case.
LoginReturned == args.call = "login" /\ pc # "sched_login"
C26_LoginOutcome ==
    /\ LoginReturned =>
            /\ pc \in {"sched_update", "sched_exit", "sched_done"}
            /\ trace = <<SchedRequest("login", SchedLoginUrl, << >>)>>
            /\ IF ret.ok
               THEN /\ lastResp.url # "" /\ ~Contains(lastResp.url, "/auth/")
                    /\ current_url = lastResp.url
               ELSE /\ lastResp = NoDoc \/ Contains(lastResp.url, "/auth/")
                    /\ current_url = ""
                    /\ caller.exit \in {"return"}
            /\ (lastResp # NoDoc /\ ~Contains(lastResp.url, "/auth/")) => ret.ok
    /\ (pc = "sched_login") => current_url = ""

\* The site answered from its /auth/ pages.
C26_Witness ==
    /\ LoginReturned /\ ~ret.ok /\ lastResp.url = SchedLoginUrl
    /\ current_url = "" /\ pc = "sched_done" /\ session = "closed"

\* C27: the rows parsed from a page are those of the slots 0..31 that
\* have an id field in the form (in the document, without the register
\* button), one row each, in ascending order, each with its own index;
\* slots from 32 on give no row.
C27_Present(doc) ==
    {i \in 0..(SlotCount - 1) :
        \E k \in 1..Len(TargetArea(doc)) :
            /\ TargetArea(doc)[k].tag = "input"
            /\ TargetArea(doc)[k].name = RowName(i, "id")}
C27_OneRowPerPresentSlot ==
    (Refetched /\ ret.msg = RegisteredMessage) =>
        /\ Len(ret.rows) = Cardinality(C27_Present(lastResp))
        /\ Len(ret.rows) <= 32
        /\ \A k \in 1..Len(ret.rows) :
                /\ ret.rows[k].index \in C27_Present(lastResp)
                /\ k > 1 => ret.rows[k - 1].index < ret.rows[k].index

\* Days 1 and 31 of a page without the button: two rows, the gap between
\* them passed over.
C27_Witness ==
    /\ Refetched /\ ret.msg = RegisteredMessage
    /\ ~lastResp.register
    /\ Len(ret.rows) = 2
    /\ ret.rows[1].index = 1 /\ ret.rows[2].index = 31
    /\ ret.rows[1].workType = "12" /\ ret.rows[1].is_kakutei

\* ------------------------------------------ the detail step, on its own
\* The loop of fetch_salary_data / fetch_bonus_data over its candidates
\* with the navigation left out (it is in Spec): each step posts the
\* candidate's button, parses the answer and appends the record.  The
\* portal answers with any of ParseDocs.
ParseLabels ==
    {"Gross", "Net", "HolidayUsedDays", "LeaveUsedDays", "Bonus", "Memo"}
ParseTexts == {"1,234", "12.50", "1,234.5", "abc", "", "-1,000"}
ParseDls ==
    {Dl(l, t) : l \in ParseLabels, t \in ParseTexts}
        \cup {Dl(Absent, "1"), Dl("Gross", Absent)}
ParseDocs ==
    {NoDetail, Detail(FALSE, <<Dl("Gross", "1,234")>>), Detail(TRUE, << >>)}
        \cup {Detail(TRUE, <<dl>>) : dl \in ParseDls}
        \cup {Detail(TRUE, <<Dl("Gross", "1,234"), Dl("Memo", "7"), dl>>) :
                dl \in {Dl("Gross", "abc"), Dl("Gross", "5"),
                        Dl("Net", "1,000,000"), Dl("Bonus", "2,000")}}
ParseTargets ==
    { << <<"RW07Y07M25D", "btn1">> >>,
      << <<"RW07Y06M25D", "btn1">>, <<"RW07Y07M25D", "btn2">> >> }
ParseDoc(doc) == [url |-> NoUrl, hidden |-> NoHidden, detail |-> doc]

InitParse ==
    /\ company_code = ""
    /\ current_form_data = EmptyForm
    /\ current_url = ""
    /\ menu_url = NoUrl
    /\ menu_form_data = EmptyForm
    /\ pc \in {"parse_salary", "parse_bonus"}
    /\ args = [call |-> IF pc = "parse_salary" THEN "salary" ELSE "bonus"]
    /\ list_url = NoUrl
    /\ list_form = EmptyForm
    /\ targets \in ParseTargets
    /\ idx = 1
    /\ results = << >>
    /\ ret = NoRet
    /\ lastResp = ParseDoc(NoDetail)
    /\ req = NoReq
    /\ trace = << >>
    /\ scanned = NotScanned
    /\ phase = "ready"
    /\ prior = NoPrior
    /\ session = "open"
    /\ today \in Todays
    /\ errors = << >>
    /\ caller = NoCaller

parseFixed ==
    <<hostVars, schedVars, callerVars, handlerVars, args, list_url,
      list_form, targets, ret, req, trace, scanned, phase>>

\* fetch_salary_data, loop body: data = _parse_detail_salary(det_soup);
\* data[period] = d_text; results.append(data).  A request that raises
\* ends the loop with the records so far.
ParseSalaryDetail ==
    /\ pc = "parse_salary" /\ idx <= Len(targets)
    /\ \/ \E doc \in ParseDocs :
            /\ lastResp' = ParseDoc(doc)
            /\ results' = Append(results,
                    WithKey(ParseDetailSalary(doc), "Period",
                            targets[idx][1]))
            /\ idx' = idx + 1
            /\ pc' = pc
       \/ /\ pc' = "parse_done"
          /\ UNCHANGED <<lastResp, results, idx>>
    /\ UNCHANGED parseFixed

\* fetch_bonus_data, loop body: the same with _parse_detail_bonus and the
\* pay date.
ParseBonusDetail ==
    /\ pc = "parse_bonus" /\ idx <= Len(targets)
    /\ \/ \E doc \in ParseDocs :
            /\ lastResp' = ParseDoc(doc)
            /\ results' = Append(results,
                    WithKey(ParseDetailBonus(doc), "PayDate",
                            targets[idx][1]))
            /\ idx' = idx + 1
            /\ pc' = pc
       \/ /\ pc' = "parse_done"
          /\ UNCHANGED <<lastResp, results, idx>>
    /\ UNCHANGED parseFixed

\* return results
ParseReturn ==
    /\ pc \in {"parse_salary", "parse_bonus"} /\ idx > Len(targets)
    /\ pc' = "parse_done"
    /\ UNCHANGED <<parseFixed, lastResp, results, idx>>

NextParse == ParseSalaryDetail \/ ParseBonusDetail \/ ParseReturn
SpecParse == InitParse /\ [][NextParse]_vars

\* The newest record of the loop and the detail document it was parsed
\* from.
Parsed ==
    /\ pc \in {"parse_salary", "parse_bonus", "parse_done"}
    /\ results # << >>
ParsedRecord == results[Len(results)]
ParsedDls == IF lastResp.detail.div THEN lastResp.detail.dls ELSE << >>
ParsedKeys == IF args.call = "salary" THEN SalaryKeys ELSE BonusKeys
ParsedPeriodKey == IF args.call = "salary" THEN "Period" ELSE "PayDate"
\* The <dl> elements of the page that carry the label of field k.
LabelHits(k) ==
    {i \in 1..Len(ParsedDls) :
        /\ ParsedDls[i].dt # Absent /\ ParsedDls[i].dd # Absent
        /\ IF args.call = "salary"
           THEN /\ ParsedDls[i].dt \in DOMAIN SalaryMapping
                /\ SalaryMapping[ParsedDls[i].dt] = k
           ELSE ParsedDls[i].dt = k}
LastHit(k) == CHOOSE i \in LabelHits(k) : \A j \in LabelHits(k) : j <= i
HitText(k) == RemoveCommas(ParsedDls[LastHit(k)].dd)
NumericLooking(text) == IntOk(text) \/ FloatOk(text)
NumericValue(text) ==
    IF FloatOk(text) THEN FloatOf(text)
    ELSE IntVal(Signed(text, NatVal(Unsigned(text))))

\* C28: every record has its period identifier and exactly the fields of
\* its kind; a field whose label is not on the page, or whose text is not
\* a number, holds "N/A".
C28_RecordCompleteWithSentinel ==
    Parsed =>
        /\ DOMAIN ParsedRecord = ParsedKeys \cup {ParsedPeriodKey}
        /\ ParsedRecord[ParsedPeriodKey] = StrVal(targets[Len(results)][1])
        /\ \A k \in ParsedKeys :
            \/ /\ LabelHits(k) # {}
               /\ NumericLooking(HitText(k))
            \/ ParsedRecord[k] = NA

\* C29: a field whose text on the page is a number written with thousands
\* separators holds the value of that text without the commas, as an int
\* or a float.
C29_CommaTextParsedToNumber ==
    Parsed =>
        \A k \in ParsedKeys :
            (/\ LabelHits(k) # {}
             /\ Contains(ParsedDls[LastHit(k)].dd, ",")
             /\ NumericLooking(HitText(k)))
                => ParsedRecord[k] = NumericValue(HitText(k))

\* ------------------------------------- run_main_logic, from its first line
\* The planning part of run_main_logic in front of the with statement:
\* the required periods, the two history files and the difference.
\* A history file is missing, readable ("ok") or raises while it is read
\* ("broken"); keys are the period identifiers of its rows, in order.
CsvFile(state, keys) == [state |-> state, keys |-> keys]
NoFile == CsvFile("missing", << >>)
SalaryFiles ==
    {NoFile,
     CsvFile("ok", << >>),
     CsvFile("ok", <<"RW07Y06M25D">>),
     CsvFile("ok", <<"RW07Y06M25D", "RW07Y07M25D">>),
     CsvFile("ok", <<"", "RW07Y06M">>),
     CsvFile("broken", <<"RW07Y06M25D", "RW07Y07M25D">>)}
BonusFiles == {NoFile, CsvFile("ok", <<"RW07Y06M25D">>)}
\* generate_target_months(today, ui_target_year) and its full-scan twin.
RequiredSets == {{"RW07Y07M"}, {"RW07Y06M", "RW07Y07M"}}
UiTargetYears == {2024, 2025}

\* Variant: the salary key is taken whole, like the bonus key.
LoadExistingDatesWhole(file, key_name) ==
    IF file.state # "ok" THEN {}
    ELSE {file.keys[i] : i \in {j \in 1..Len(file.keys) : file.keys[j] # ""}}

\* load_existing_csv(csv_path, key_name): the second component of its
\* return value.  Rows without a key add nothing; the salary key is cut to
\* its first 8 characters; any exception gives the empty set.
LoadExistingDates(file, key_name) ==
    IF file.state # "ok" THEN {}
    ELSE {IF key_name = "Period" /\ Len(file.keys[i]) >= 8
          THEN SubSeq(file.keys[i], 1, 8) ELSE file.keys[i] :
            i \in {j \in 1..Len(file.keys) : file.keys[j] # ""}}

\* target_years_to_run: int(prefix[2:4]) + 2018 of every required period
\* that has digits there, and ui_target_year.
TargetYearsToRun(required_months_set, ui_target_year) ==
    {NatVal(SubSeq(p, 3, 4)) + 2018 :
        p \in {q \in required_months_set :
                    Len(q) >= 4 /\ AllDigits(SubSeq(q, 3, 4))}}
        \cup {ui_target_year}

\* sorted(list(target_years_to_run)), each as the label "RW%02dY".
TwoDigits(n) ==
    CharAt(DigitChars, ((n \div 10) % 10) + 1)
        \o CharAt(DigitChars, (n % 10) + 1)
RECURSIVE SortedYearLabels(_)
SortedYearLabels(years) ==
    IF years = {} THEN << >>
    ELSE LET y == CHOOSE m \in years : \A n \in years : m <= n
         IN  <<"RW" \o TwoDigits(y - 2018) \o "Y">>
                \o SortedYearLabels(years \ {y})

InitPlan ==
    /\ company_code = "c01"
    /\ current_form_data = EmptyForm
    /\ current_url = NoUrl
    /\ menu_url = NoUrl
    /\ menu_form_data = EmptyForm
    /\ pc = "idle"
    /\ args = NoArgs
    /\ list_url = NoUrl
    /\ list_form = EmptyForm
    /\ targets = << >>
    /\ idx = 0
    /\ results = << >>
    /\ ret = NoRet
    /\ lastResp = NoResp
    /\ req = NoReq
    /\ trace = << >>
    /\ scanned = NotScanned
    /\ phase = "none"
    /\ prior = NoPrior
    /\ session = NoSession
    /\ today = NoDate
    /\ errors = << >>
    /\ \E required \in RequiredSets, year \in UiTargetYears,
          csv \in SalaryFiles, bonus_csv \in BonusFiles :
        caller = [prog |-> "plan", required_months_set |-> required,
                  ui_target_year |-> year, csv |-> csv,
                  bonus_csv |-> bonus_csv]

\* Lines 38-80: the required periods and years, the two files, the
\* difference, and the entry of the with statement.
PlanLoad ==
    /\ caller.prog = "plan" /\ session = NoSession
    /\ caller' =
        [prog |-> "run",
         required_months_set |-> caller.required_months_set,
         ui_target_year |-> caller.ui_target_year,
         csv |-> caller.csv, bonus_csv |-> caller.bonus_csv,
         final_target_dates_set |->
            caller.required_months_set
                \ LoadExistingDates(caller.csv, "Period"),
         years |->
            SortedYearLabels(TargetYearsToRun(caller.required_months_set,
                                              caller.ui_target_year)),
         all_existing_bonus_dates_set |->
            LoadExistingDates(caller.bonus_csv, "PayDate")]
    /\ session' = "open"
    /\ UNCHANGED <<company_code, today, handlerVars, pc, frameVars, wireVars,
                   scanned, phase, prior, schedVars>>

NextPlan ==
    \/ PlanLoad
    \/ RunLogin
    \/ LoginGet
    \/ LoginPost
    \/ RunSalary
    \/ SalaryShow
    \/ SalaryDetail
    \/ SalaryGoBack
    \/ SalaryBackToMenu
    \/ RunBonus
    \/ BonusShow
    \/ BonusDetail
    \/ BonusGoBack
    \/ BonusBackToMenu
    \/ RunLogout
    \/ LogoutPost
    \/ RunExit

SpecPlan == InitPlan /\ [][NextPlan]_vars

\* The periods that the payroll history file holds.
PersistedPeriods ==
    {Prefix(caller.csv.keys[i], 8) :
        i \in {j \in 1..Len(caller.csv.keys) : caller.csv.keys[j] # ""}}
SalaryRequests ==
    {i \in 1..Len(trace) :
        \/ trace[i].target = "cmdShowSalary"
        \/ trace[i].kind = "detail" /\ args.call = "salary"}

\* C30: the set given to fetch_salary_data is the required periods without
\* those the payroll history file holds; no period the file holds is
\* requested again; and when nothing is left no salary list or detail
\* page is requested.
C30_DifferentialFetch ==
    caller.prog = "run" =>
        /\ caller.final_target_dates_set =
                caller.required_months_set \ PersistedPeriods
        /\ args.call = "salary" =>
                /\ args.target_dates_set = caller.final_target_dates_set
                /\ \A i \in SalaryRequests :
                        trace[i].kind = "detail" =>
                            Prefix(trace[i].label, 8) \notin PersistedPeriods
        /\ caller.final_target_dates_set = {} =>
                args.call # "salary" /\ SalaryRequests = {}

\* ------------------------------------------- the configuration checks
\* The two places where a missing setting is found: the constructor of
\* ScheduleHandler (in handle_submit) and PayslipHandler.login (in
\* run_main_logic), each up to the end of the login.
InitConfig == InitSubmit \/ InitRun

NextConfig ==
    \/ SubmitEnter
    \/ SchedLogin
    \/ HandlerExit
    \/ RunLogin
    \/ LoginGet
    \/ LoginPost
    \/ RunExit

SpecConfig == InitConfig /\ [][NextConfig]_vars

ConfigMessage == "LOGIN_COMPANY_CODE unset"

\* C31: a missing setting is reported at once and no request is made: the
\* constructor of ScheduleHandler raises before login is called, and
\* PayslipHandler.login returns its own message before the first request;
\* neither outcome occurs when the settings are there.
C31_PreconditionBeforeNetwork ==
    /\ (caller.prog = "submit" /\ ~caller.env_ok /\ pc # "idle") =>
            /\ caller.exit = "constructor"
            /\ args = NoArgs /\ trace = << >> /\ req = NoReq
    /\ (caller.prog = "submit" /\ caller.exit = "constructor") =>
            ~caller.env_ok
    /\ (caller.prog = "run" /\ company_code = "" /\ args.call = "login") =>
            /\ ~ret.ok /\ ret.msg = ConfigMessage
            /\ pc = "idle" /\ trace = << >> /\ req = NoReq
    /\ (caller.prog = "run" /\ ret.msg = ConfigMessage) => company_code = ""

\* login returned the configuration message and the block was left.
C31_Witness ==
    /\ caller.prog = "run" /\ company_code = ""
    /\ args.call = "login" /\ ret.msg = ConfigMessage /\ ~ret.ok
    /\ trace = << >> /\ session = "closed"

\* C32: a step that changes the hidden-field snapshot leaves it with
\* exactly the three tracked names, each holding the value of that field
\* in the newest document, or "" when the document lacks the field;
\* nothing of the snapshot before the step is kept.
TrackedNames == {"VIEWSTATE", "EVENTVALIDATION", "VIEWSTATEGENERATOR"}
C32_Replaced ==
    (current_form_data' # current_form_data) =>
        /\ DOMAIN current_form_data' = TrackedNames
        /\ \A name \in TrackedNames :
            current_form_data'[name] =
                IF lastResp'.hidden[name] = Absent THEN ""
                ELSE lastResp'.hidden[name]
C32_SnapshotReplacedWholesale == [][C32_Replaced]_vars

\* A page without two of the fields followed a page with all three: the
\* home snapshot still has the earlier tokens, the current one has not.
C32_Witness ==
    /\ menu_form_data # EmptyForm
    /\ menu_form_data["EVENTVALIDATION"] # ""
    /\ current_form_data # EmptyForm
    /\ current_form_data["VIEWSTATE"] # ""
    /\ current_form_data["EVENTVALIDATION"] = ""
    /\ current_form_data["VIEWSTATEGENERATOR"] = ""
    /\ lastResp.hidden["EVENTVALIDATION"] = Absent

\* The four time components of a row, as the names of their fields.
TimeComponents ==
    {"workStartTime", "workEndTime", "restTime", "midnightTime"}
PostedBlank(i, key) == Strip(req.form[RowName(i, key)]) = ""

\* C33: in the payload built from rows that passed the validation, each
\* time component of each submitted row has its hour and its minute both
\* blank or both filled.
C33_PayloadKeepsPairs ==
    req.kind = "register" =>
        \A i \in UiRows : \A c \in TimeComponents :
            PostedBlank(args.ui_data_list[i].index, c \o "Hour")
                <=> PostedBlank(args.ui_data_list[i].index, c \o "Minute")

\* C34: a confirmed flag is in the payload only for a submitted row that
\* has a start hour, a comment or a work type of its own; the flags of
\* the served form are not carried over, so its other rows go without.
C34_Flagged(i) ==
    \/ Strip(caller.table[i].start_h) # ""
    \/ args.ui_data_list[i].comment # ""
    \/ WorkTypeCode(caller.table[i].workType) # UnsetType
C34_FormFlags ==
    {list_form[k].name : k \in {j \in 1..Len(list_form) :
        EndsWith(list_form[j].name, ".kakutei")}}
C34_FlagOnlyForSubmittedRows ==
    req.kind = "register" =>
        /\ \A key \in DOMAIN req.form :
            EndsWith(key, ".kakutei") =>
                /\ req.form[key] = "true"
                /\ \E i \in UiRows :
                    /\ key = RowName(args.ui_data_list[i].index, "kakutei")
                    /\ C34_Flagged(i)
        /\ \A key \in C34_FormFlags :
            (\A i \in UiRows :
                key # RowName(args.ui_data_list[i].index, "kakutei"))
                    => key \notin DOMAIN req.form

\* The served form has days 0 and 5 ticked; row 0 alone is submitted,
\* without an entry: neither flag is posted.
C34_Witness ==
    /\ req.kind = "register" /\ Len(args.ui_data_list) = 1
    /\ args.ui_data_list[1].index = 0 /\ ~C34_Flagged(1)
    /\ \A d \in {0, 5} : \E k \in 1..Len(list_form) :
        /\ list_form[k].name = RowName(d, "kakutei") /\ list_form[k].checked
    /\ RowName(5, "kakutei") \notin DOMAIN req.form
    /\ RowName(0, "kakutei") \notin DOMAIN req.form

\* ---------------------------------------------- handle_fetch_data, by step
\* The fetch button of the schedule view: the same with block as
\* handle_submit, with get_current_data in the place of update_schedule.
FetchedMessage == "fetched"
FetchErrorMessage == "fetch error"

InitFetch ==
    /\ company_code = ""
    /\ current_form_data = EmptyForm
    /\ current_url = ""
    /\ menu_url = NoUrl
    /\ menu_form_data = EmptyForm
    /\ pc = "idle"
    /\ args = NoArgs
    /\ list_url = NoUrl
    /\ list_form = EmptyForm
    /\ targets = << >>
    /\ idx = 0
    /\ results = << >>
    /\ ret = NoRet
    /\ lastResp = NoDoc
    /\ req = NoReq
    /\ trace = << >>
    /\ scanned = NotScanned
    /\ phase = "none"
    /\ prior = NoPrior
    /\ session = NoSession
    /\ today \in Todays
    /\ errors = << >>
    /\ \E env_ok \in BOOLEAN :
        caller = [prog |-> "fetch", env_ok |-> env_ok, table |-> << >>,
                  sub_data |-> << >>, exit |-> "none", caught |-> FALSE]

\* `with ScheduleHandler(ROOT_DIR) as handler:` of handle_fetch_data.
FetchEnter ==
    /\ caller.prog = "fetch" /\ pc = "idle" /\ session = NoSession
    /\ session' = "open"
    /\ IF caller.env_ok
       THEN pc' = "sched_login" /\ UNCHANGED caller
       ELSE /\ pc' = "sched_done"
            /\ caller' = [caller EXCEPT !.exit = "constructor",
                                        !.caught = TRUE]
    /\ UNCHANGED <<submitFixed, list_url, list_form, current_url, args, ret,
                   wireVars, errors>>

\* Variant: a page without the register button is reported as a failure,
\* with the rows found on it.
GetCurrentDataNeedsButton ==
    /\ caller.prog = "fetch" /\ pc = "sched_update"
    /\ args' = [call |-> "get_current_data"]
    /\ LET r == SchedRequest("get", current_url, << >>)
       IN  /\ req' = r
           /\ trace' = <<r>>
    /\ \/ /\ ret' = SchedRet(FALSE, FetchErrorMessage, << >>)
          /\ UNCHANGED lastResp
       \/ \E doc \in LatestDocs :
            /\ lastResp' = doc
            /\ ret' = SchedRet(doc.register,
                               IF doc.register THEN FetchedMessage
                               ELSE FetchErrorMessage,
                               ParseScheduleRows(doc))
    /\ pc' = "sched_ui"
    /\ UNCHANGED <<submitFixed, list_url, list_form, session, current_url,
                   caller, errors>>

\* handler.get_current_data(): one GET of current_url; the rows of the
\* page that arrives, whatever its status, or a failure without rows when
\* the request or the parse raises.
GetCurrentData ==
    /\ caller.prog = "fetch" /\ pc = "sched_update"
    /\ args' = [call |-> "get_current_data"]
    /\ LET r == SchedRequest("get", current_url, << >>)
       IN  /\ req' = r
           /\ trace' = <<r>>
    /\ \/ /\ ret' = SchedRet(FALSE, FetchErrorMessage, << >>)
          /\ UNCHANGED lastResp
       \/ \E doc \in LatestDocs :
            /\ lastResp' = doc
            /\ ret' = SchedRet(TRUE, FetchedMessage, ParseScheduleRows(doc))
    /\ pc' = "sched_ui"
    /\ UNCHANGED <<submitFixed, list_url, list_form, session, current_url,
                   caller, errors>>

InitViews == InitSubmit \/ InitFetch

NextViews ==
    \/ SubmitEnter
    \/ FetchEnter
    \/ SchedLogin
    \/ (caller.prog = "submit" /\ UpdateValidate)
    \/ UpdateGet
    \/ UpdatePost
    \/ UpdateRefetch
    \/ GetCurrentData
    \/ SubmitUi
    \/ HandlerExit

SpecViews == InitViews /\ [][NextViews]_vars

\* C35: update_schedule and get_current_data always return: a row list
\* with rows comes with the success flag only, and every failure comes
\* with an empty row list.
HandlerReturned ==
    /\ args # NoArgs
    /\ args.call \in {"update_schedule", "get_current_data"}
    /\ pc \in {"sched_ui", "sched_exit", "sched_done"}
C35_RowsOnlyOnSuccess ==
    /\ (args # NoArgs /\ args.call \in {"update_schedule", "get_current_data"}) =>
            /\ pc \in {"sched_get", "sched_post", "sched_refetch",
                       "sched_ui", "sched_exit", "sched_done"}
            /\ pc \in {"sched_get", "sched_post", "sched_refetch"} =>
                    caller.exit = "none"
    /\ HandlerReturned =>
            /\ ret # NoRet
            /\ ret.rows # << >> => ret.ok
            /\ ~ret.ok => ret.rows = << >>
            /\ pc = "sched_ui" => caller.exit = "none"

\* get_current_data failed: no rows, and the block was left in order.
C35_Witness ==
    /\ HandlerReturned /\ args.call = "get_current_data"
    /\ ~ret.ok /\ ret.rows = << >> /\ ret.msg = FetchErrorMessage
    /\ pc = "sched_done" /\ caller.exit = "normal" /\ session = "closed"

\* C36: when the cmdShowBonus POST is answered from a page that is not the
\* bonus list, fetch_bonus_data returns an empty list with that POST as the
\* only request of the call, and menu_url, menu_form_data, current_url and
\* the snapshot are what they were before the call.
C36_NotLanded ==
    /\ pc = "bon_show"
    /\ Len(trace') = 1 /\ trace'[1].ok
    /\ ~UrlHas(lastResp'.url, BonusListPage)
C36_Step ==
    C36_NotLanded =>
        /\ pc' = "idle"
        /\ results' = << >>
        /\ trace'[1].kind = "show" /\ trace'[1].target = "cmdShowBonus"
        /\ UNCHANGED <<menu_url, menu_form_data, current_url,
                       current_form_data>>
C36_BonusShowElsewhereLeavesState == [][C36_Step]_vars

\* The call has returned from a page that is not the bonus list; the page
\* carried a snapshot other than the one the handler keeps.
C36_Witness ==
    /\ args # NoArgs /\ args.call = "bonus" /\ pc = "idle"
    /\ Len(trace) = 1 /\ trace[1].ok /\ trace[1].target = "cmdShowBonus"
    /\ ~UrlHas(lastResp.url, BonusListPage)
    /\ results = << >>
    /\ ExtractState(lastResp.hidden) # menu_form_data
    /\ ExtractState(lastResp.hidden) # current_form_data

\* --------------------------------------- run_main_logic, run after run
\* The whole of run_main_logic up to its return, with the two history
\* files kept from one run to the next, and the automatic save of the
\* payslip view that follows a successful run.
\* Only the period identifiers of the rows are kept of a history file.
RunsFiles ==
    {NoFile,
     CsvFile("ok", <<"RW07Y06M25D">>),
     CsvFile("broken", <<"RW07Y06M25D">>)}
\* The year chosen in the UI: the year of the required periods.
RunsTargetYears == {2025}
NoResult == [ok |-> FALSE, error |-> "", returned |-> FALSE]
Idle(csv, bonus_csv, result) ==
    [prog |-> "main", csv |-> csv, bonus_csv |-> bonus_csv,
     result |-> result]

\* load_existing_csv(csv_path, key_name): the first component of its
\* return value, every row of a file that can be read.
LoadExistingRows(file) == IF file.state = "ok" THEN file.keys ELSE << >>

\* _sort_key_for_csv: the date of a label with year, month and day, the
\* first of the month of a label with year and month, datetime.min (0)
\* otherwise; a date that does not exist falls through to the next form.
HasYearMonth(s) ==
    /\ Len(s) >= 8
    /\ SubSeq(s, 1, 2) = "RW" /\ AllDigits(SubSeq(s, 3, 4))
    /\ CharAt(s, 5) = "Y" /\ AllDigits(SubSeq(s, 6, 7))
    /\ CharAt(s, 8) = "M"
HasDay(s) ==
    /\ HasYearMonth(s) /\ Len(s) >= 11
    /\ AllDigits(SubSeq(s, 9, 10)) /\ CharAt(s, 11) = "D"
SortKeyForCsv(date_str) ==
    LET y == NatVal(SubSeq(date_str, 3, 4)) + 2018
        m == NatVal(SubSeq(date_str, 6, 7))
        d == NatVal(SubSeq(date_str, 9, 10))
    IN  IF HasDay(date_str) /\ m \in 1..12 /\ d \in 1..DaysInMonth(y, m)
        THEN (y * 10000) + (m * 100) + d
        ELSE IF HasYearMonth(date_str) /\ m \in 1..12
             THEN (y * 10000) + (m * 100) + 1
             ELSE 0

\* sorted(data_list, key=_sort_key_for_csv): stable.
RECURSIVE SortedForCsv(_)
SortedForCsv(keys) ==
    IF keys = << >> THEN << >>
    ELSE LET rest == SortedForCsv(SubSeq(keys, 1, Len(keys) - 1))
             last == keys[Len(keys)]
             before == {i \in 1..Len(rest) :
                            SortKeyForCsv(rest[i]) <= SortKeyForCsv(last)}
             n == IF before = {} THEN 0
                  ELSE CHOOSE i \in before : \A j \in before : j <= i
         IN  SubSeq(rest, 1, n) \o <<last>> \o SubSeq(rest, n + 1, Len(rest))

\* save_to_csv(data_list, ...): nothing without rows; otherwise the sorted
\* rows replace the file, or the write raises and is logged: before the
\* file is opened, or after it has been emptied.
SaveToCsv(file, data_list) ==
    IF data_list = << >> THEN {file}
    ELSE {CsvFile("ok", SortedForCsv(data_list)), file, CsvFile("ok", << >>)}

\* merged_map of merge_and_save_csv: the keyed rows of the file, then the
\* new ones; a key met again keeps its place.
RECURSIVE MergedKeys(_)
MergedKeys(keys) ==
    IF keys = << >> THEN << >>
    ELSE LET first == MergedKeys(SubSeq(keys, 1, Len(keys) - 1))
             last == keys[Len(keys)]
         IN  IF last = "" \/ \E i \in 1..Len(first) : first[i] = last
             THEN first ELSE Append(first, last)

\* merge_and_save_csv(new_data, root_dir, csv_filename, key_name)
MergeAndSaveCsv(file, new_data) ==
    IF new_data = << >> THEN {file}
    ELSE SaveToCsv(file, MergedKeys(LoadExistingRows(file) \o new_data))

\* [d for d in rows if target_reiwa_str in d.get(key, "")]
RowsOfUiYear(rows, ui_target_year) ==
    LET target_reiwa_str == "RW" \o TwoDigits(ui_target_year - 2018) \o "Y"
        OfYear(key) == Contains(key, target_reiwa_str)
    IN  SelectSeq(rows, OfYear)

LabelSeq(records, key) == [i \in 1..Len(records) |-> records[i][key].s]

InitRuns ==
    /\ company_code \in {"", "c01"}
    /\ current_form_data = EmptyForm
    /\ current_url = NoUrl
    /\ menu_url = NoUrl
    /\ menu_form_data = EmptyForm
    /\ pc = "idle"
    /\ args = NoArgs
    /\ list_url = NoUrl
    /\ list_form = EmptyForm
    /\ targets = << >>
    /\ idx = 0
    /\ results = << >>
    /\ ret = NoRet
    /\ lastResp = NoResp
    /\ req = NoReq
    /\ trace = << >>
    /\ scanned = NotScanned
    /\ phase = "none"
    /\ prior = NoPrior
    /\ session = NoSession
    /\ today = NoDate
    /\ errors = << >>
    /\ \E csv \in RunsFiles, bonus_csv \in RunsFiles :
        caller = Idle(csv, bonus_csv, NoResult)

\* Lines 38-80 of a run: the required periods and years, the two files,
\* the difference, the empty result lists and a new PayslipHandler.
RunsLoad ==
    /\ caller.prog \in {"main", "returned"} /\ session # "open"
    /\ \E required \in RequiredSets, year \in RunsTargetYears :
        caller' =
            [prog |-> "run",
             required_months_set |-> required,
             ui_target_year |-> year,
             csv |-> caller.csv, bonus_csv |-> caller.bonus_csv,
             all_existing_data |-> LoadExistingRows(caller.csv),
             all_existing_bonus |-> LoadExistingRows(caller.bonus_csv),
             final_target_dates_set |->
                required \ LoadExistingDates(caller.csv, "Period"),
             years |-> SortedYearLabels(TargetYearsToRun(required, year)),
             all_existing_bonus_dates_set |->
                LoadExistingDates(caller.bonus_csv, "PayDate"),
             all_new_payslips |-> << >>,
             all_new_bonuses |-> << >>,
             salary_extended |-> FALSE,
             extended_at |-> -1]
    /\ session' = "open"
    /\ current_form_data' = EmptyForm
    /\ current_url' = NoUrl
    /\ menu_url' = NoUrl
    /\ menu_form_data' = EmptyForm
    /\ pc' = "idle"
    /\ args' = NoArgs
    /\ list_url' = NoUrl
    /\ list_form' = EmptyForm
    /\ targets' = << >>
    /\ idx' = 0
    /\ results' = << >>
    /\ ret' = NoRet
    /\ lastResp' = NoResp
    /\ req' = NoReq
    /\ trace' = << >>
    /\ scanned' = NotScanned
    /\ phase' = "none"
    /\ UNCHANGED <<company_code, today, prior, schedVars>>

\* A fetch has returned and its list has not yet been added to the run's.
ExtendPending ==
    /\ caller.prog = "run" /\ pc = "idle" /\ args # NoArgs
    /\ \/ args.call = "salary" /\ ~caller.salary_extended
       \/ args.call = "bonus" /\ caller.extended_at # Len(caller.years)

\* all_new_payslips.extend(new_payslips), all_new_bonuses.extend(new_bonuses)
RunsExtend ==
    /\ ExtendPending
    /\ caller' =
        IF args.call = "salary"
        THEN [caller EXCEPT
                !.all_new_payslips = @ \o LabelSeq(results, "Period"),
                !.salary_extended = TRUE]
        ELSE [caller EXCEPT
                !.all_new_bonuses = @ \o LabelSeq(results, "PayDate"),
                !.extended_at = Len(caller.years)]
    /\ UNCHANGED <<hostVars, handlerVars, pc, frameVars, wireVars, scanned,
                   phase, prior, schedVars>>

\* The portal's list tables hold each period label once.
UniqueLabels(table) ==
    \A i, j \in 1..Len(table.rows) :
        (/\ table.rows[i].cells >= 3 /\ table.rows[j].cells >= 3
         /\ table.rows[i].label = table.rows[j].label) => i = j
RunsSalaryShow == SalaryShow /\ UniqueLabels(scanned'.table)
RunsBonusShow == BonusShow /\ UniqueLabels(scanned'.table)

\* Variant: a run whose login failed is reported as a success.
RunsSaveIgnoresLogin ==
    /\ caller.prog = "run" /\ session = "closed"
    /\ LET payslips == caller.all_existing_data \o caller.all_new_payslips
           bonuses == caller.all_existing_bonus \o caller.all_new_bonuses
       IN  \E csv \in SaveToCsv(caller.csv,
                        IF caller.all_new_payslips = << >>
                        THEN << >> ELSE payslips),
              bonus_csv \in SaveToCsv(caller.bonus_csv,
                        IF caller.all_new_bonuses = << >>
                        THEN << >> ELSE bonuses) :
                caller' =
                    [prog |-> "returned", csv |-> csv,
                     bonus_csv |-> bonus_csv,
                     result |-> [ok |-> TRUE, error |-> "",
                                 returned |-> TRUE],
                     final_data_ui |->
                        RowsOfUiYear(IF caller.all_new_payslips = << >>
                               THEN caller.all_existing_data ELSE payslips,
                               caller.ui_target_year),
                     bonus_data_ui |->
                        RowsOfUiYear(IF caller.all_new_bonuses = << >>
                               THEN caller.all_existing_bonus ELSE bonuses,
                               caller.ui_target_year)]
    /\ UNCHANGED <<hostVars, handlerVars, pc, frameVars, wireVars, scanned,
                   phase, prior, schedVars>>

\* Lines 104-135 and the return: after a failed login the error is
\* returned and nothing is saved; otherwise each history that got new
\* records is extended and saved, and the rows of the UI year are
\* returned.
RunsSave ==
    /\ caller.prog = "run" /\ session = "closed"
    /\ LET http_success == ~(args.call = "login" /\ ~ret.ok)
           payslips == caller.all_existing_data \o caller.all_new_payslips
           bonuses == caller.all_existing_bonus \o caller.all_new_bonuses
       IN  IF ~http_success
           THEN caller' =
                    [prog |-> "returned", csv |-> caller.csv,
                     bonus_csv |-> caller.bonus_csv,
                     result |-> [ok |-> FALSE, error |-> ret.msg,
                                 returned |-> TRUE],
                     final_data_ui |-> << >>, bonus_data_ui |-> << >>]
           ELSE \E csv \in SaveToCsv(caller.csv,
                            IF caller.all_new_payslips = << >>
                            THEN << >> ELSE payslips),
                   bonus_csv \in SaveToCsv(caller.bonus_csv,
                            IF caller.all_new_bonuses = << >>
                            THEN << >> ELSE bonuses) :
                    caller' =
                        [prog |-> "returned", csv |-> csv,
                         bonus_csv |-> bonus_csv,
                         result |-> [ok |-> TRUE, error |-> "",
                                     returned |-> TRUE],
                         final_data_ui |->
                            RowsOfUiYear(IF caller.all_new_payslips = << >>
                                   THEN caller.all_existing_data
                                   ELSE payslips,
                                   caller.ui_target_year),
                         bonus_data_ui |->
                            RowsOfUiYear(IF caller.all_new_bonuses = << >>
                                   THEN caller.all_existing_bonus
                                   ELSE bonuses,
                                   caller.ui_target_year)]
    /\ UNCHANGED <<hostVars, handlerVars, pc, frameVars, wireVars, scanned,
                   phase, prior, schedVars>>

\* save_data_automatically of the payslip view, after a successful run:
\* the returned rows are merged into the two files.
ViewSave ==
    /\ caller.prog = "returned" /\ caller.result.ok
    /\ \E csv \in MergeAndSaveCsv(caller.csv, caller.final_data_ui),
          bonus_csv \in MergeAndSaveCsv(caller.bonus_csv,
                                        caller.bonus_data_ui) :
            caller' = Idle(csv, bonus_csv, caller.result)
    /\ UNCHANGED <<hostVars, handlerVars, pc, frameVars, wireVars, scanned,
                   phase, prior, schedVars>>

\* The snapshots and figures the portal serves do not reach the files:
\* in the runs every page carries the same snapshot, and every detail
\* page the same figures and no query.
SteadyHidden ==
    [VIEWSTATE |-> "t1", EVENTVALIDATION |-> "t1", VIEWSTATEGENERATOR |-> "t1"]
SteadyDetail ==
    Detail(TRUE, << Dl("Gross", "1,234"), Dl("Overtime", "12.50"),
                    Dl("Bonus", "500,000") >>)
SteadyPortal ==
    /\ \/ UNCHANGED lastResp
       \/ /\ lastResp'.hidden = SteadyHidden
          /\ UrlHas(lastResp'.url, DetailPage) => lastResp'.url.query = << >>
    /\ Len(results') > Len(results) =>
        LET rec == results'[Len(results')]
        IN  \/ /\ args.call = "salary"
               /\ rec = WithKey(ParseDetailSalary(SteadyDetail), "Period",
                                rec["Period"].s)
            \/ /\ args.call = "bonus"
               /\ rec = WithKey(ParseDetailBonus(SteadyDetail), "PayDate",
                                rec["PayDate"].s)

NextRuns ==
    \/ RunsLoad
    \/ RunLogin
    \/ (LoginGet /\ SteadyPortal)
    \/ (LoginPost /\ SteadyPortal)
    \/ RunSalary
    \/ (RunsSalaryShow /\ SteadyPortal)
    \/ (SalaryDetail /\ SteadyPortal)
    \/ (SalaryGoBack /\ SteadyPortal)
    \/ (SalaryBackToMenu /\ SteadyPortal)
    \/ RunsExtend
    \/ (~ExtendPending /\ RunBonus)
    \/ (RunsBonusShow /\ SteadyPortal)
    \/ (BonusDetail /\ SteadyPortal)
    \/ (BonusGoBack /\ SteadyPortal)
    \/ (BonusBackToMenu /\ SteadyPortal)
    \/ (~ExtendPending /\ RunLogout)
    \/ (LogoutPost /\ SteadyPortal)
    \/ RunExit
    \/ RunsSave
    \/ ViewSave

SpecRuns == InitRuns /\ [][NextRuns]_vars

\* C37: when the login of a run fails, the run makes no fetch and no
\* logout request, returns the failure with the login's message once the
\* handler's session is closed, and leaves both history files as they were.
LoginFailed ==
    /\ caller.prog = "run" /\ pc = "idle"
    /\ args # NoArgs /\ args.call = "login" /\ ~ret.ok
C37_Step ==
    LoginFailed =>
        /\ \A i \in 1..Len(trace) :
                trace[i].kind \in {"login_get", "login_post"}
        /\ args' = args /\ trace' = trace /\ req' = req
        /\ caller'.prog \in {"run", "returned"}
        /\ caller'.prog = "returned" =>
                /\ session = "closed" /\ session' = "closed"
                /\ caller'.csv = caller.csv
                /\ caller'.bonus_csv = caller.bonus_csv
                /\ caller'.result.returned
                /\ ~caller'.result.ok
                /\ caller'.result.error = ret.msg
C37_LoginFailureEndsRun == [][C37_Step]_vars

\* A run whose login the portal refused has returned; the payroll history
\* holds what an earlier run saved.
C37_Witness ==
    /\ caller.prog = "returned" /\ caller.result.returned
    /\ ~caller.result.ok /\ caller.result.error = "login failed"
    /\ args.call = "login" /\ Len(trace) = 2 /\ session = "closed"
    /\ caller.csv = CsvFile("ok", <<"RW07Y07M">>)

\* C38: whatever runs came before and however their fetches ended, each
\* history file holds a period identifier once, and a run adds no record
\* of a period that the history it loaded already holds.
NoRepeat(keys) ==
    \A i, j \in 1..Len(keys) : keys[i] = keys[j] => i = j
Disjoint(olds, news) ==
    \A i \in 1..Len(olds), j \in 1..Len(news) : olds[i] # news[j]
C38_OneRecordPerPeriod ==
    /\ NoRepeat(caller.csv.keys)
    /\ NoRepeat(caller.bonus_csv.keys)
    /\ caller.prog = "run" =>
        /\ NoRepeat(caller.all_existing_data \o caller.all_new_payslips)
        /\ NoRepeat(caller.all_existing_bonus \o caller.all_new_bonuses)
        /\ Disjoint(caller.all_existing_data, caller.all_new_payslips)
        /\ Disjoint(caller.all_existing_bonus, caller.all_new_bonuses)
        /\ (args # NoArgs /\ args.call = "salary") =>
                \A i \in 1..Len(trace) :
                    trace[i].kind = "detail" =>
                        Disjoint(caller.all_existing_data, <<trace[i].label>>)
        /\ (args # NoArgs /\ args.call = "bonus") =>
                \A i \in 1..Len(trace) :
                    trace[i].kind = "detail" =>
                        Disjoint(caller.all_existing_bonus, <<trace[i].label>>)

\* A later run has added the period an earlier run's fetch left out.
C38_Witness ==
    /\ caller.prog = "run" /\ session = "closed"
    /\ caller.all_existing_data = <<"RW07Y07M">>
    /\ caller.all_new_payslips = <<"RW07Y06M25D">>
    /\ caller.all_existing_bonus = <<"RW07Y07M">>
    /\ caller.all_new_bonuses = <<"RW07Y06M25D">>

\* --------------------------------------------- one call of fetch_bonus_data
\* A login and a single fetch_bonus_data call: the first half of SpecTwice.
NextOnce ==
    \/ TwiceLogin
    \/ LoginGet
    \/ LoginPost
    \/ TwiceFirst
    \/ TwiceShow
    \/ BonusDetail
    \/ BonusGoBack
    \/ BonusBackToMenu

SpecOnce == Init /\ [][NextOnce]_vars

\* ------------------------------------------------- login and logout alone
\* Every sequence of login() and logout() calls on one handler.
NextLogin ==
    \/ LoginCall
    \/ LoginGet
    \/ LoginPost
    \/ LogoutCall
    \/ LogoutPost

SpecLogin == Init /\ [][NextLogin]_vars

====
